---- MODULE Spec2Model ----
(***************************************************************************)
(* A model of tanoshi's extension host and install path                    *)
(* (tanoshi/src/extension/manga.rs): the registry of loaded extensions     *)
(* behind Arc<RwLock<Extensions>>, install_source, list_sources and the    *)
(* content requests that borrow a handle under the shared lock.            *)
(***************************************************************************)
EXTENDS Integers, Sequences, FiniteSets, TLC

(* ------------------------------------------------------------------ *)
(* Bounds of the model                                                  *)
(* ------------------------------------------------------------------ *)
MaxInstalls == 2    \* install_source calls started in a run
MaxRequests == 1    \* content requests started in a run
MaxEntries == 2     \* entries of the index list_sources is given

\* The workers of the runtime that serve install_source and content requests.
Installers == {1, 2}
Requesters == {3}

(* ------------------------------------------------------------------ *)
(* Values                                                               *)
(* ------------------------------------------------------------------ *)
\* Version strings are sequences of characters, as String is in the source.
V090 == <<"0", ".", "9", ".", "0">>
V100 == <<"1", ".", "0", ".", "0">>
V123 == <<"1", ".", "2", ".", "3">>
V124 == <<"1", ".", "2", ".", "4">>
V129 == <<"1", ".", "2", ".", "9">>
V130 == <<"1", ".", "3", ".", "0">>
V1100 == <<"1", ".", "1", "0", ".", "0">>
NoVersion == << >>

\* tanoshi_lib::CORE_VERSION and tanoshi_lib::RUSTC_VERSION of the host build.
CORE_VERSION == "core-host"
RUSTC_VERSION == "rustc-host"

\* The registry's answer when no extension has the name (Option::None).
NoHandle == [name |-> "", version |-> NoVersion]

\* The messages of the TransactionReject values install_source returns.
Ok == "ok"
SourceNotFound == "extension not found"
UnsupportedPlatform == "os not supported"
DownloadError == "download: read error"
WriteError == "write: io error"
AbiMismatch == "load: version mismatch"
LoadError == "load: cannot open library"
AlreadyLoaded == "load: already loaded"
NotLoaded == "remove: not loaded"
NoResult == "none"

\* A file of the plugin directory.
Absent == [status |-> "absent", kind |-> "none", name |-> "",
           version |-> NoVersion, core |-> "", rustc |-> ""]
Partial == [status |-> "partial", kind |-> "none", name |-> "",
            version |-> NoVersion, core |-> "", rustc |-> ""]
NoBytes == [kind |-> "none", name |-> "", version |-> NoVersion,
            core |-> "", rustc |-> ""]
Garbage == [kind |-> "garbage", name |-> "", version |-> NoVersion,
            core |-> "", rustc |-> ""]

Complete(bytes) ==
  [status |-> "complete", kind |-> bytes.kind, name |-> bytes.name,
   version |-> bytes.version, core |-> bytes.core, rustc |-> bytes.rustc]

VARIABLES
  os,        \* std::env::consts::OS / cfg!(target_os) of the build
  catalog,   \* the remote index.json, a sequence of SourceIndex
  exts,      \* Extensions behind the RwLock: the loaded handles
  readers,   \* the holders of the RwLock's shared guard
  writer,    \* the holder of the RwLock's exclusive guard, 0 when free
  files,     \* the plugin directory: file name -> file
  ipc,       \* install_source: position of each call
  iname,     \* install_source: source_name
  ibytes,    \* install_source: bytes read from the download
  iold,      \* install_source: version of the handle exts.remove took out
  ifd,       \* install_source: state of the file std::fs::write has open
  ires,      \* install_source: the value returned
  rpc,       \* content request: position of each call
  rsrc,      \* content request: the source it asks the registry for
  rhandle,   \* content request: the handle borrowed from the registry
  rduring,   \* content request: the installs in progress when it took the lock
  rres,      \* content request: the value returned
  lspc,      \* list_sources: position of the call
  lsOut,     \* list_sources: the sources of the reply
  started,   \* the calls started so far, by kind
  manga,     \* the store's manga table, rows in insertion order
  chapter,   \* the store's chapter table
  page,      \* the store's page table
  provider,  \* what the provider of the source currently serves
  cw,        \* cached content operations: the state of each call
  ccalls,    \* cached content operations started so far
  overlay,   \* the store's per-user columns, by subject
  detail     \* the web client's Detail component

vars == <<os, catalog, exts, readers, writer, files, ipc, iname, ibytes, iold,
          ifd, ires, rpc, rsrc, rhandle, rduring, rres, lspc, lsOut,
          started, manga, chapter, page, provider, cw, ccalls, overlay,
          detail>>

regVars == <<exts, readers, writer>>
instVars == <<ipc, iname, ibytes, iold, ifd, ires>>
reqVars == <<rpc, rsrc, rhandle, rduring, rres>>
listVars == <<lspc, lsOut>>
callVars == <<started>>
envVars == <<os, catalog>>
storeVars == <<manga, chapter, page>>
cacheVars == <<storeVars, provider, cw, ccalls>>
userVars == <<overlay, detail>>

(* ------------------------------------------------------------------ *)
(* Extensions: the registry (crate::extension::Extensions)              *)
(* ------------------------------------------------------------------ *)
\* The positions of the handles registered under a name.
Slots(reg, name) == {i \in DOMAIN reg : reg[i].name = name}

\* Extensions::get: the handle registered under the name, if any.
ExtGet(reg, name) ==
  IF Slots(reg, name) = {} THEN NoHandle
  ELSE reg[CHOOSE i \in Slots(reg, name) : \A j \in Slots(reg, name) : i <= j]

\* Extensions::remove: NotLoaded when the name has no handle.
ExtRemove(reg, name) ==
  IF Slots(reg, name) = {} THEN [err |-> NotLoaded, exts |-> reg]
  ELSE [err |-> Ok, exts |-> SelectSeq(reg, LAMBDA h : h.name # name)]

\* Extensions::load: opens the library at the path, checks the versions it
\* declares against the host's before anything else, and registers it under
\* the name it declares.
ExtLoad(reg, file) ==
  IF file.status # "complete" \/ file.kind # "plugin"
    THEN [err |-> LoadError, exts |-> reg]
  ELSE IF file.core # CORE_VERSION \/ file.rustc # RUSTC_VERSION
    THEN [err |-> AbiMismatch, exts |-> reg]
  ELSE IF Slots(reg, file.name) # {}
    THEN [err |-> AlreadyLoaded, exts |-> reg]
  ELSE [err |-> Ok,
        exts |-> Append(reg, [name |-> file.name, version |-> file.version])]

(* ------------------------------------------------------------------ *)
(* The remote repository and the plugin directory                       *)
(* ------------------------------------------------------------------ *)
SourceNames == {"foo", "bar"}

\* available_sources.iter().find(|s| s.name == source_name): 0 when None.
FindSource(cat, name) ==
  IF \E i \in DOMAIN cat : cat[i].name = name
    THEN CHOOSE i \in DOMAIN cat :
           cat[i].name = name /\ \A j \in DOMAIN cat : cat[j].name = name => i <= j
    ELSE 0

\* The extension of the library file for the build's target_os; "" when the
\* build has none.
Suffix(target) ==
  IF target = "windows" THEN "dll"
  ELSE IF target = "macos" THEN "dylib"
  ELSE IF target = "linux" THEN "so"
  ELSE ""

\* PathBuf::from(plugin_path).join(format!("{}.{}", source_name, ext))
FilePath(name, ext) == <<name, ext>>

FilePaths == {FilePath(n, e) : n \in SourceNames, e \in {"dll", "dylib", "so"}}

\* The binary the repository serves at an index entry's path.
RemoteBinary(entry) ==
  [kind |-> "plugin", name |-> entry.name, version |-> entry.version,
   core |-> entry.core_version, rustc |-> entry.rustc_version]

\* An index entry as deserialized: the annotations are absent from index.json.
Entry(n, v, core, rustc) ==
  [name |-> n, path |-> <<"library", n>>, rustc_version |-> rustc,
   core_version |-> core, version |-> v, installed_version |-> NoVersion,
   installed |-> FALSE, update |-> FALSE]

(* ------------------------------------------------------------------ *)
(* The RwLock around the registry                                       *)
(* ------------------------------------------------------------------ *)
\* RwLock::write returns once no guard, shared or exclusive, is held.
CanWrite == writer = 0 /\ readers = {}

\* RwLock::read returns once no exclusive guard is held.
CanRead == writer = 0

(* ------------------------------------------------------------------ *)
(* install_source                                                       *)
(* ------------------------------------------------------------------ *)
InstallPath(p) == FilePath(iname[p], Suffix(os))

\* The calls of install_source that have the file at a path open for writing.
Writing(path) ==
  {q \in Installers : ipc[q] = "writing" /\ InstallPath(q) = path
                      /\ ifd[q] \in {"clean", "raced"}}

\* A start that picks the suffix of the platform before it looks the source up.
InstallStartPlatformFirst(p, name) ==
  /\ ipc[p] = "idle"
  /\ started.install < MaxInstalls
  /\ started' = [started EXCEPT !.install = @ + 1]
  /\ iname' = [iname EXCEPT ![p] = name]
  /\ IF Suffix(os) = ""
       THEN /\ ipc' = [ipc EXCEPT ![p] = "done"]
            /\ ires' = [ires EXCEPT ![p] = UnsupportedPlatform]
     ELSE IF FindSource(catalog, name) = 0
       THEN /\ ipc' = [ipc EXCEPT ![p] = "done"]
            /\ ires' = [ires EXCEPT ![p] = SourceNotFound]
     ELSE /\ ipc' = [ipc EXCEPT ![p] = "unload_wait"]
          /\ ires' = ires
  /\ UNCHANGED <<envVars, userVars, cacheVars, regVars, files, ibytes, iold, ifd, reqVars, listVars>>

\* Fetch the index, find the source, pick the suffix of the platform.
InstallStart(p, name) ==
  /\ ipc[p] = "idle"
  /\ started.install < MaxInstalls
  /\ started' = [started EXCEPT !.install = @ + 1]
  /\ iname' = [iname EXCEPT ![p] = name]
  /\ IF FindSource(catalog, name) = 0
       THEN /\ ipc' = [ipc EXCEPT ![p] = "done"]
            /\ ires' = [ires EXCEPT ![p] = SourceNotFound]
     ELSE IF Suffix(os) = ""
       THEN /\ ipc' = [ipc EXCEPT ![p] = "done"]
            /\ ires' = [ires EXCEPT ![p] = UnsupportedPlatform]
     ELSE /\ ipc' = [ipc EXCEPT ![p] = "unload_wait"]
          /\ ires' = ires
  /\ UNCHANGED <<envVars, userVars, cacheVars, regVars, files, ibytes, iold, ifd, reqVars, listVars>>

\* A lock step that does not wait for the shared guards to be released.
InstallLockUnloadNoWait(p) ==
  /\ ipc[p] = "unload_wait"
  /\ writer = 0
  /\ writer' = p
  /\ ipc' = [ipc EXCEPT ![p] = "unload"]
  /\ UNCHANGED <<envVars, userVars, cacheVars, callVars, exts, readers, files, iname, ibytes, iold, ifd, ires,
                 reqVars, listVars>>

\* self.exts.write() of the first block.
InstallLockUnload(p) ==
  /\ ipc[p] = "unload_wait"
  /\ CanWrite
  /\ writer' = p
  /\ ipc' = [ipc EXCEPT ![p] = "unload"]
  /\ UNCHANGED <<envVars, userVars, cacheVars, callVars, exts, readers, files, iname, ibytes, iold, ifd, ires,
                 reqVars, listVars>>

\* An unload step that leaves the handle in the registry.
InstallUnloadKeeps(p) ==
  /\ ipc[p] = "unload"
  /\ writer' = 0
  /\ ipc' = [ipc EXCEPT ![p] = "download"]
  /\ iold' = [iold EXCEPT ![p] = ExtGet(exts, iname[p]).version]
  /\ UNCHANGED <<envVars, userVars, cacheVars, callVars, exts, readers, files, iname, ibytes, ifd, ires,
                 reqVars, listVars>>

\* An unload step whose guard lives on to the end of the function.
InstallUnloadHoldsLock(p) ==
  /\ ipc[p] = "unload"
  /\ LET r == ExtRemove(exts, iname[p])
         path == InstallPath(p)
     IN /\ exts' = r.exts
        /\ iold' = [iold EXCEPT ![p] =
                      IF r.err = Ok THEN ExtGet(exts, iname[p]).version
                      ELSE NoVersion]
        /\ \E removed \in BOOLEAN :
             IF r.err = Ok /\ removed /\ files[path].status # "absent"
               THEN /\ files' = [files EXCEPT ![path] = Absent]
                    /\ ifd' = [q \in Installers |->
                                 IF q \in Writing(path) THEN "orphan" ELSE ifd[q]]
               ELSE /\ files' = files
                    /\ ifd' = ifd
  /\ writer' = writer
  /\ ipc' = [ipc EXCEPT ![p] = "download"]
  /\ UNCHANGED <<envVars, userVars, cacheVars, callVars, readers, iname, ibytes, ires, reqVars, listVars>>

\* exts.remove(&source_name), remove_file(&path) when it succeeded (the file
\* may stay: its removal is best effort), and the release of the guard.
InstallUnload(p) ==
  /\ ipc[p] = "unload"
  /\ LET r == ExtRemove(exts, iname[p])
         path == InstallPath(p)
     IN /\ exts' = r.exts
        /\ iold' = [iold EXCEPT ![p] =
                      IF r.err = Ok THEN ExtGet(exts, iname[p]).version
                      ELSE NoVersion]
        /\ \E removed \in BOOLEAN :
             IF r.err = Ok /\ removed /\ files[path].status # "absent"
               THEN /\ files' = [files EXCEPT ![path] = Absent]
                    /\ ifd' = [q \in Installers |->
                                 IF q \in Writing(path) THEN "orphan" ELSE ifd[q]]
               ELSE /\ files' = files
                    /\ ifd' = ifd
  /\ writer' = 0
  /\ ipc' = [ipc EXCEPT ![p] = "download"]
  /\ UNCHANGED <<envVars, userVars, cacheVars, callVars, readers, iname, ibytes, ires, reqVars, listVars>>

\* ureq::get(..source.path).call() and read_to_end: the library, the body of
\* an error response, or a read error.
InstallDownload(p) ==
  /\ ipc[p] = "download"
  /\ \E outcome \in {"library", "garbage", "error"} :
       IF outcome = "error"
         THEN /\ ipc' = [ipc EXCEPT ![p] = "done"]
              /\ ires' = [ires EXCEPT ![p] = DownloadError]
              /\ ibytes' = ibytes
         ELSE /\ ipc' = [ipc EXCEPT ![p] = "write"]
              /\ ires' = ires
              /\ ibytes' = [ibytes EXCEPT ![p] =
                              IF outcome = "library"
                                THEN RemoteBinary(catalog[FindSource(catalog, iname[p])])
                                ELSE Garbage]
  /\ UNCHANGED <<envVars, userVars, cacheVars, callVars, regVars, files, iname, iold, ifd, reqVars, listVars>>

\* std::fs::write, first half: the file is created or truncated.
InstallWriteBegin(p) ==
  /\ ipc[p] = "write"
  /\ \E opened \in BOOLEAN :
       IF opened
         THEN LET path == InstallPath(p)
                  others == Writing(path)
              IN /\ files' = [files EXCEPT ![path] = Partial]
                 /\ ifd' = [q \in Installers |->
                              IF q = p THEN (IF others = {} THEN "clean" ELSE "raced")
                              ELSE IF q \in others THEN "raced"
                              ELSE ifd[q]]
                 /\ ipc' = [ipc EXCEPT ![p] = "writing"]
                 /\ ires' = ires
         ELSE /\ ipc' = [ipc EXCEPT ![p] = "done"]
              /\ ires' = [ires EXCEPT ![p] = WriteError]
              /\ UNCHANGED <<files, ifd>>
  /\ UNCHANGED <<envVars, userVars, cacheVars, callVars, regVars, iname, ibytes, iold, reqVars, listVars>>

\* std::fs::write, second half: the bytes are written and the file closed. A
\* file another call wrote to meanwhile may hold a mix of the two; a file
\* removed meanwhile stays removed.
InstallWriteEnd(p) ==
  /\ ipc[p] = "writing"
  /\ \E written \in BOOLEAN :
       LET path == InstallPath(p)
       IN /\ IF ~written \/ ifd[p] = "orphan" THEN files' = files
             ELSE IF ifd[p] = "clean"
               THEN files' = [files EXCEPT ![path] = Complete(ibytes[p])]
             ELSE \E f \in {Partial, Complete(ibytes[p])} :
                    files' = [files EXCEPT ![path] = f]
          /\ IF written
               THEN /\ ipc' = [ipc EXCEPT ![p] = "load_wait"]
                    /\ ires' = ires
               ELSE /\ ipc' = [ipc EXCEPT ![p] = "done"]
                    /\ ires' = [ires EXCEPT ![p] = WriteError]
  /\ ifd' = [ifd EXCEPT ![p] = "none"]
  /\ UNCHANGED <<envVars, userVars, cacheVars, callVars, regVars, iname, ibytes, iold, reqVars, listVars>>

\* A lock step that does not wait for the shared guards to be released.
InstallLockLoadNoWait(p) ==
  /\ ipc[p] = "load_wait"
  /\ writer = 0
  /\ writer' = p
  /\ ipc' = [ipc EXCEPT ![p] = "load"]
  /\ UNCHANGED <<envVars, userVars, cacheVars, callVars, exts, readers, files, iname, ibytes, iold, ifd, ires,
                 reqVars, listVars>>

\* self.exts.write() of the second block.
InstallLockLoad(p) ==
  /\ ipc[p] = "load_wait"
  /\ CanWrite
  /\ writer' = p
  /\ ipc' = [ipc EXCEPT ![p] = "load"]
  /\ UNCHANGED <<envVars, userVars, cacheVars, callVars, exts, readers, files, iname, ibytes, iold, ifd, ires,
                 reqVars, listVars>>

\* A load block that registers the library it wrote without asking the
\* registry whether the name is taken.
LoadBlockAlways(reg, name, file) ==
  IF file.status # "complete" \/ file.kind # "plugin"
    THEN [err |-> LoadError, exts |-> reg]
  ELSE [err |-> Ok,
        exts |-> Append(reg, [name |-> file.name, version |-> file.version])]

\* A load block that drops the error of the load.
LoadBlockSwallows(reg, name, file) ==
  IF ExtGet(reg, name) = NoHandle
    THEN [err |-> Ok, exts |-> ExtLoad(reg, file).exts]
    ELSE [err |-> Ok, exts |-> reg]

\* if ext.get(&source_name).is_none() { ext.load(path, None)? }
LoadBlock(reg, name, file) ==
  IF ExtGet(reg, name) = NoHandle
    THEN ExtLoad(reg, file)
    ELSE [err |-> Ok, exts |-> reg]

\* The second block: the load under the exclusive guard, and its release.
InstallLoad(p) ==
  /\ ipc[p] = "load"
  /\ LET r == LoadBlock(exts, iname[p], files[InstallPath(p)])
     IN /\ exts' = r.exts
        /\ ires' = [ires EXCEPT ![p] = r.err]
  /\ writer' = 0
  /\ ipc' = [ipc EXCEPT ![p] = "done"]
  /\ UNCHANGED <<envVars, userVars, cacheVars, callVars, readers, files, iname, ibytes, iold, ifd,
                 reqVars, listVars>>

\* The call has returned: the worker is free for the next one.
InstallReturn(p) ==
  /\ ipc[p] = "done"
  /\ ipc' = [ipc EXCEPT ![p] = "idle"]
  /\ iname' = [iname EXCEPT ![p] = ""]
  /\ ibytes' = [ibytes EXCEPT ![p] = NoBytes]
  /\ iold' = [iold EXCEPT ![p] = NoVersion]
  /\ ires' = [ires EXCEPT ![p] = NoResult]
  /\ rduring' = [q \in Requesters |-> rduring[q] \ {p}]
  /\ UNCHANGED <<envVars, userVars, cacheVars, callVars, regVars, files, ifd, rpc, rsrc, rhandle, rres, listVars>>

(* ------------------------------------------------------------------ *)
(* Content requests: list_mangas, get_manga_info, get_chapters,         *)
(* get_pages, proxy_image, source_login                                 *)
(* ------------------------------------------------------------------ *)
Panic == "panic: unwrap on None"
ProviderError == "provider error"

\* let exts = self.exts.read().unwrap();
ReqAcquire(p, source) ==
  /\ rpc[p] = "idle"
  /\ started.request < MaxRequests
  /\ started' = [started EXCEPT !.request = @ + 1]
  /\ CanRead
  /\ readers' = readers \cup {p}
  /\ rsrc' = [rsrc EXCEPT ![p] = source]
  /\ rduring' = [rduring EXCEPT ![p] =
                   {i \in Installers : ipc[i] \notin {"idle", "done"}}]
  /\ rpc' = [rpc EXCEPT ![p] = "locked"]
  /\ UNCHANGED <<envVars, userVars, cacheVars, exts, writer, files, instVars, rhandle, rres, listVars>>

\* exts.get(&source).unwrap(): the handle is borrowed and the provider
\* called, or the unwrap panics and the guard is dropped by the unwinding.
ReqLookup(p) ==
  /\ rpc[p] = "locked"
  /\ IF ExtGet(exts, rsrc[p]) = NoHandle
       THEN /\ rpc' = [rpc EXCEPT ![p] = "done"]
            /\ rres' = [rres EXCEPT ![p] = Panic]
            /\ readers' = readers \ {p}
            /\ rhandle' = rhandle
       ELSE /\ rpc' = [rpc EXCEPT ![p] = "calling"]
            /\ rhandle' = [rhandle EXCEPT ![p] = ExtGet(exts, rsrc[p])]
            /\ UNCHANGED <<rres, readers>>
  /\ UNCHANGED <<envVars, userVars, cacheVars, callVars, exts, writer, files, instVars, rsrc, rduring, listVars>>

\* The provider call returns and the function with it: the guard is dropped.
ReqReturn(p) ==
  /\ rpc[p] = "calling"
  /\ \E out \in {Ok, ProviderError} : rres' = [rres EXCEPT ![p] = out]
  /\ readers' = readers \ {p}
  /\ rpc' = [rpc EXCEPT ![p] = "done"]
  /\ UNCHANGED <<envVars, userVars, cacheVars, callVars, exts, writer, files, instVars, rsrc, rhandle, rduring,
                 listVars>>

\* The worker is free for the next request.
ReqReset(p) ==
  /\ rpc[p] = "done"
  /\ rpc' = [rpc EXCEPT ![p] = "idle"]
  /\ rsrc' = [rsrc EXCEPT ![p] = ""]
  /\ rhandle' = [rhandle EXCEPT ![p] = NoHandle]
  /\ rduring' = [rduring EXCEPT ![p] = {}]
  /\ rres' = [rres EXCEPT ![p] = NoResult]
  /\ UNCHANGED <<envVars, userVars, cacheVars, callVars, regVars, files, instVars, listVars>>

(* ------------------------------------------------------------------ *)
(* The cached content operations: the store                             *)
(* ------------------------------------------------------------------ *)
MaxCalls == 2       \* cached content operations started in a run

CacheWorkers == {1, 2}

\* Option<String> and Vec<String>: None and the empty list are << >>.
None == << >>
Some(x) == <<x>>

\* The rows of the three tables, and the Err of a point lookup.
NoManga ==
  [id |-> 0, source |-> "", path |-> "", status |-> None, author |-> << >>,
   description |-> None]
NoChapter == [id |-> 0, manga_id |-> 0, source |-> "", number |-> ""]
MangaRow(i, src, path, st, au, de) ==
  [id |-> i, source |-> src, path |-> path, status |-> st, author |-> au,
   description |-> de]
ChapterRow(i, m, src, no) == [id |-> i, manga_id |-> m, source |-> src, number |-> no]
PageRow(c, r, u) == [chapter_id |-> c, rank |-> r, url |-> u]

\* The errors and panics of the cached operations.
StoreError == "store error"
NotFound == "pages not found"
PanicErr == "panic: unwrap on Err"

\* The per-user columns of a subject that has marked nothing: the favorite
\* flag of the manga, the chapter last read and the read counter.
NoOverlay == [favorite |-> FALSE, last_read |-> 0, read |-> 0]

\* What an operation hands back: one shape for the four kinds and the
\* composite, the fields a kind does not fill left at their defaults.
Reply(kind) ==
  [kind |-> kind, mangas |-> << >>, manga |-> NoManga, chapters |-> << >>,
   chapter |-> NoChapter, pages |-> << >>, manga_id |-> 0,
   overlay |-> NoOverlay]

\* The subjects of the tokens, and the one whose requests worker w serves.
Subjects == {"alice", "bob"}
Subject(w) == IF w = 1 THEN "alice" ELSE "bob"

\* INSERT INTO manga ... ON CONFLICT DO NOTHING for the paths from position
\* k on of the provider's list.
RECURSIVE InsertMangasFrom(_, _, _, _)
InsertMangasFrom(tbl, src, paths, k) ==
  IF k > Len(paths) THEN tbl
  ELSE InsertMangasFrom(
         IF \E j \in DOMAIN tbl : tbl[j].source = src /\ tbl[j].path = paths[k]
           THEN tbl
           ELSE Append(tbl, MangaRow(Len(tbl) + 1, src, paths[k], None, << >>, None)),
         src, paths, k + 1)

\* An insert that gives every manga of the list a new row.
InsertMangasNoConflictCheck(tbl, src, paths) ==
  tbl \o [k \in 1..Len(paths) |->
            MangaRow(Len(tbl) + k, src, paths[k], None, << >>, None)]

InsertMangas(tbl, src, paths) == InsertMangasFrom(tbl, src, paths, 1)

\* repo.get_mangas: the rows of the source with the paths just inserted.
GetMangas(tbl, src, paths) ==
  SelectSeq(tbl, LAMBDA m : m.source = src
                            /\ \E k \in DOMAIN paths : paths[k] = m.path)

\* repo.get_manga_detail / repo.get_manga: the row of the id, or Err.
GetManga(tbl, id) ==
  IF \E k \in DOMAIN tbl : tbl[k].id = id
    THEN tbl[CHOOSE k \in DOMAIN tbl : tbl[k].id = id]
    ELSE NoManga

\* The row carries everything the detail view needs.
IsComplete(row) ==
  row.status # None /\ row.author # << >> /\ row.description # None

\* repo.update_manga_info: a shared field is filled in when it was absent.
UpdateMangaInfo(tbl, id, fresh) ==
  [k \in DOMAIN tbl |->
     IF tbl[k].id = id
       THEN [tbl[k] EXCEPT !.author = IF @ = << >> THEN fresh.author ELSE @,
                           !.status = IF @ = None THEN fresh.status ELSE @,
                           !.description = IF @ = None THEN fresh.description ELSE @]
       ELSE tbl[k]]

\* repo.get_chapters: the chapters of the manga, Err (here << >>) when the
\* cache holds none.
GetChapters(tbl, m) == SelectSeq(tbl, LAMBDA c : c.manga_id = m)

\* repo.get_chapter: the row of the id, or Err.
GetChapter(tbl, id) ==
  IF \E k \in DOMAIN tbl : tbl[k].id = id
    THEN tbl[CHOOSE k \in DOMAIN tbl : tbl[k].id = id]
    ELSE NoChapter

\* An insert that ignores the unique key of the table.
InsertChapterNoConflictCheck(tbl, m, src, no) ==
  Append(tbl, ChapterRow(Len(tbl) + 1, m, src, no))

\* INSERT INTO chapter ... ON CONFLICT DO NOTHING, one row.
InsertChapter(tbl, m, src, no) ==
  IF \E k \in DOMAIN tbl : tbl[k].manga_id = m /\ tbl[k].number = no
    THEN tbl
    ELSE Append(tbl, ChapterRow(Len(tbl) + 1, m, src, no))

\* repo.delete_pages: every page row of the chapter goes.
DeletePages(tbl, c) == SelectSeq(tbl, LAMBDA r : r.chapter_id # c)

\* repo.get_pages: the urls of the chapter in rank order, Err (here << >>)
\* when the cache holds none.
GetPages(tbl, c) ==
  LET rows == {tbl[k] : k \in {j \in DOMAIN tbl : tbl[j].chapter_id = c}}
      below(r) == Cardinality({q \in rows : q.rank < r.rank})
  IN [k \in 1 .. Cardinality(rows) |->
        (CHOOSE r \in rows : below(r) = k - 1).url]

\* INSERT INTO page ... ON CONFLICT DO NOTHING for the urls from position k
\* on, the rank of a url being its index in the provider's list.
RECURSIVE InsertPagesFrom(_, _, _, _)
InsertPagesFrom(tbl, c, urls, k) ==
  IF k > Len(urls) THEN tbl
  ELSE InsertPagesFrom(
         IF \E j \in DOMAIN tbl : tbl[j].chapter_id = c /\ tbl[j].rank = k - 1
           THEN tbl ELSE Append(tbl, PageRow(c, k - 1, urls[k])),
         c, urls, k + 1)

InsertPages(tbl, c, urls) == InsertPagesFrom(tbl, c, urls, 1)

\* The manga of a chapter, as the page reply reports it.
MangaOf(tbl, c) == GetChapter(tbl, c).manga_id

(* ------------------------------------------------------------------ *)
(* The cached content operations: get_manga_info, get_chapters,         *)
(* get_pages and the composite read                                     *)
(* ------------------------------------------------------------------ *)
\* A call: the operation and its arguments, the sub-fetch in progress (the
\* operation itself unless the call is a read), the locals of the function,
\* the reply, and a log of the provider calls, cache writes and sub-fetches
\* the call has made (failed: the error a sub-fetch returned to read).
IdleCall ==
  [pc |-> "idle", op |-> "none", id |-> 0, refresh |-> FALSE,
   sub |-> "none", sid |-> 0, row |-> NoManga, hit |-> FALSE,
   fetched |-> << >>, k |-> 0, acc |-> Reply("none"), res |-> Reply("none"),
   prov |-> << >>, perr |-> FALSE, wrote |-> FALSE, deleted |-> "no",
   stages |-> << >>, failed |-> "none", prior |-> "none",
   locked |-> FALSE, handle |-> NoHandle, subject |-> "none"]

\* The first position of a sub-fetch.
FirstPc(kind, refresh) ==
  CASE kind = "mangas" -> "ms_lookup"
    [] kind = "info" -> "info_check"
    [] kind = "chapters" -> "ch_check"
    [] kind = "pages" -> IF refresh THEN "pg_delete" ELSE "pg_check"
    [] kind = "image" -> "img_resolve"
    [] kind = "detail" -> "detail_check"

\* chapters.chapters.iter().find(|c| c.id == chapter_id)
FindChapter(chapters, id) ==
  IF \E k \in DOMAIN chapters : chapters[k].id = id
    THEN chapters[CHOOSE k \in DOMAIN chapters :
                    /\ chapters[k].id = id
                    /\ \A j \in 1 .. k - 1 : chapters[j].id # id]
    ELSE NoChapter

\* A thread that panics: the call is over, nothing is returned.
Panicked(me, how) == [me EXCEPT !.pc = "done", !.res = Reply(how)]

\* read after a sub-fetch has returned: the Result is unwrapped, the next
\* sub-fetch is called with the manga of the pages, and after the last one
\* the chapter is looked up and the aggregate assembled.
ReadNext(me, result) ==
  IF result.kind # Ok
    THEN Panicked([me EXCEPT !.failed = result.kind], PanicErr)
  ELSE CASE me.sub = "pages" ->
              [me EXCEPT !.acc.pages = result.pages,
                         !.acc.manga_id = result.manga_id,
                         !.sub = "chapters", !.sid = result.manga_id,
                         !.pc = FirstPc("chapters", me.refresh),
                         !.stages = Append(@, "chapters")]
         [] me.sub = "chapters" ->
              [me EXCEPT !.acc.chapters = result.chapters,
                         !.sub = "info",
                         !.pc = FirstPc("info", me.refresh),
                         !.stages = Append(@, "info")]
         [] me.sub = "info" ->
              LET found == FindChapter(me.acc.chapters, me.id)
              IN IF found = NoChapter THEN Panicked(me, Panic)
                 ELSE [me EXCEPT !.pc = "done",
                                 !.res = [me.acc EXCEPT !.kind = Ok,
                                                        !.manga = result.manga,
                                                        !.chapter = found]]

\* The records of list_mangas, get_manga_info and get_chapters are read with
\* a subject: its columns come with them.
WithOverlay(me, result, s) ==
  IF result.kind = Ok /\ me.op \in {"mangas", "info", "chapters"}
    THEN [result EXCEPT !.overlay = overlay[s]]
    ELSE result

\* A return whose records carry the per-user columns of the first subject.
ReturnAsFirstSubject(me, result) ==
  IF me.op = "read" THEN ReadNext(me, result)
  ELSE [me EXCEPT !.pc = "done", !.res = WithOverlay(me, result, "alice")]

\* The function in progress returns result: to the caller of the operation,
\* or to the read that called it. The records were read with claim.sub.
Return(me, result) ==
  IF me.op = "read" THEN ReadNext(me, result)
  ELSE [me EXCEPT !.pc = "done", !.res = WithOverlay(me, result, me.subject)]

\* What the get_manga_info calls that have returned told about the manga,
\* for a get_manga_info that starts now.
PriorInfo(op, id) ==
  LET earlier == {v \in CacheWorkers :
                    /\ cw[v].pc = "done" /\ cw[v].op = "info" /\ op = "info"
                    /\ cw[v].id = id /\ cw[v].res.kind = Ok}
  IN IF earlier = {} THEN "none"
     ELSE IF \E v \in earlier : IsComplete(cw[v].res.manga) THEN "complete"
     ELSE "incomplete"

\* A call starts on a free worker.
CallStart(w, op, id, refresh) ==
  /\ cw[w].pc = "idle"
  /\ ccalls < MaxCalls
  /\ ccalls' = ccalls + 1
  /\ LET first == IF op = "read" THEN "pages" ELSE op
     IN cw' = [cw EXCEPT ![w] =
                 [IdleCall EXCEPT
                    !.pc = FirstPc(first, refresh), !.op = op, !.id = id,
                    !.refresh = refresh, !.sub = first, !.sid = id,
                    !.subject = Subject(w),
                    !.stages = <<first>>,
                    !.prior = PriorInfo(op, id)]]
  /\ UNCHANGED <<envVars, userVars, callVars, regVars, files, instVars, reqVars, listVars,
                 storeVars, provider>>

MangasStart(w) == CallStart(w, "mangas", 0, FALSE)
InfoStart(w, id) == CallStart(w, "info", id, FALSE)
ChaptersStart(w, id, refresh) == CallStart(w, "chapters", id, refresh)
PagesStart(w, id, refresh) == CallStart(w, "pages", id, refresh)
ReadStart(w, id, refresh) == CallStart(w, "read", id, refresh)

\* The frame of a step of a call.
CallFrame ==
  UNCHANGED <<envVars, userVars, callVars, regVars, files, instVars, reqVars, listVars,
              provider, ccalls>>

\* list_mangas up to the provider call: the provider of the source is taken
\* from the registry, no cache is consulted.
MangasLookup(w) ==
  LET me == cw[w]
  IN /\ me.pc = "ms_lookup"
     /\ cw' = [cw EXCEPT ![w] =
                 IF ExtGet(exts, "foo") = NoHandle THEN Panicked(me, Panic)
                 ELSE [me EXCEPT !.pc = "ms_fetch"]]
     /\ UNCHANGED storeVars
     /\ CallFrame

\* The provider's get_mangas returns: an Err is unwrapped, the list goes to
\* insert_mangas.
MangasFetch(w) ==
  LET me == [cw[w] EXCEPT !.prov = Append(@, "mangas")]
  IN /\ cw[w].pc = "ms_fetch"
     /\ \E fetched \in BOOLEAN :
          cw' = [cw EXCEPT ![w] =
                   IF ~fetched
                     THEN Panicked([me EXCEPT !.perr = TRUE], PanicErr)
                   ELSE [me EXCEPT !.fetched = provider.mangas, !.k = 1,
                                   !.pc = "ms_insert"]]
     /\ UNCHANGED storeVars
     /\ CallFrame

\* insert_mangas, one row: the k-th manga of the provider's list, the store
\* taking each row atomically; an Err of the store ends the call.
MangasInsert(w) ==
  LET me == cw[w]
  IN /\ me.pc = "ms_insert"
     /\ \E stored \in BOOLEAN :
          IF ~stored
            THEN /\ cw' = [cw EXCEPT ![w] = Return(me, Reply(StoreError))]
                 /\ UNCHANGED storeVars
          ELSE /\ manga' = InsertMangas(manga, "foo", <<me.fetched[me.k]>>)
               /\ cw' = [cw EXCEPT ![w] =
                           [me EXCEPT !.wrote = TRUE, !.k = @ + 1,
                                      !.pc = IF me.k = Len(me.fetched)
                                               THEN "ms_reread" ELSE "ms_insert"]]
               /\ UNCHANGED <<chapter, page>>
     /\ CallFrame

\* repo.get_mangas: the rows of the ids insert_mangas gave are read back and
\* returned.
MangasReread(w) ==
  LET me == cw[w]
  IN /\ me.pc = "ms_reread"
     /\ cw' = [cw EXCEPT ![w] =
                 Return(me, [Reply(Ok) EXCEPT
                               !.mangas = GetMangas(manga, "foo", me.fetched)])]
     /\ UNCHANGED storeVars
     /\ CallFrame

\* A get_manga_info that returns whatever row it finds.
InfoCheckAlwaysCached(w) ==
  LET me == cw[w]
      row == GetManga(manga, me.sid)
  IN /\ me.pc = "info_check"
     /\ cw' = [cw EXCEPT ![w] =
                 IF row = NoManga THEN Return(me, Reply(StoreError))
                 ELSE Return([me EXCEPT !.row = row],
                             [Reply(Ok) EXCEPT !.manga = row])]
     /\ UNCHANGED storeVars
     /\ CallFrame

\* A get_manga_info that goes to the provider whatever row it finds.
InfoCheckNeverCached(w) ==
  LET me == cw[w]
      row == GetManga(manga, me.sid)
  IN /\ me.pc = "info_check"
     /\ cw' = [cw EXCEPT ![w] =
                 IF row = NoManga THEN Return(me, Reply(StoreError))
                 ELSE IF ExtGet(exts, row.source) = NoHandle
                   THEN Panicked([me EXCEPT !.row = row], Panic)
                 ELSE [me EXCEPT !.row = row, !.pc = "info_fetch"]]
     /\ UNCHANGED storeVars
     /\ CallFrame

\* get_manga_info up to the provider call: the cached row is read and
\* returned when it is complete; otherwise the provider is taken from the
\* registry.
InfoCheck(w) ==
  LET me == cw[w]
      row == GetManga(manga, me.sid)
  IN /\ me.pc = "info_check"
     /\ cw' = [cw EXCEPT ![w] =
                 IF row = NoManga THEN Return(me, Reply(StoreError))
                 ELSE IF IsComplete(row)
                   THEN Return([me EXCEPT !.row = row],
                               [Reply(Ok) EXCEPT !.manga = row])
                 ELSE IF ExtGet(exts, row.source) = NoHandle
                   THEN Panicked([me EXCEPT !.row = row], Panic)
                 ELSE [me EXCEPT !.row = row, !.pc = "info_fetch"]]
     /\ UNCHANGED storeVars
     /\ CallFrame

\* A detail fetch whose failure inside a read undoes the pages the read has
\* cached.
InfoFetchRollsBack(w) ==
  LET me == [cw[w] EXCEPT !.prov = Append(@, "info")]
  IN /\ cw[w].pc = "info_fetch"
     /\ \E fetched \in BOOLEAN, stored \in BOOLEAN :
          IF ~fetched
            THEN /\ cw' = [cw EXCEPT ![w] =
                             Panicked([me EXCEPT !.perr = TRUE], PanicErr)]
                 /\ page' = IF me.op = "read" THEN DeletePages(page, me.id) ELSE page
                 /\ UNCHANGED <<manga, chapter>>
          ELSE IF ~stored
            THEN /\ cw' = [cw EXCEPT ![w] = Return(me, Reply(StoreError))]
                 /\ UNCHANGED storeVars
          ELSE /\ manga' = UpdateMangaInfo(manga, me.sid, provider.detail)
               /\ cw' = [cw EXCEPT ![w] =
                           Return([me EXCEPT !.wrote = TRUE],
                                  [Reply(Ok) EXCEPT
                                     !.manga = GetManga(manga', me.sid)])]
               /\ UNCHANGED <<chapter, page>>
     /\ CallFrame

\* The provider's get_manga_info returns: an Err is unwrapped; the detail
\* is written to the row and the row read again.
InfoFetch(w) ==
  LET me == [cw[w] EXCEPT !.prov = Append(@, "info")]
  IN /\ cw[w].pc = "info_fetch"
     /\ \E fetched \in BOOLEAN, stored \in BOOLEAN :
          IF ~fetched
            THEN /\ cw' = [cw EXCEPT ![w] =
                             Panicked([me EXCEPT !.perr = TRUE], PanicErr)]
                 /\ UNCHANGED storeVars
          ELSE IF ~stored
            THEN /\ cw' = [cw EXCEPT ![w] = Return(me, Reply(StoreError))]
                 /\ UNCHANGED storeVars
          ELSE /\ manga' = UpdateMangaInfo(manga, me.sid, provider.detail)
               /\ cw' = [cw EXCEPT ![w] =
                           Return([me EXCEPT !.wrote = TRUE],
                                  [Reply(Ok) EXCEPT
                                     !.manga = GetManga(manga', me.sid)])]
               /\ UNCHANGED <<chapter, page>>
     /\ CallFrame

\* A get_chapters that returns the cached chapters even when asked to
\* refresh.
ChaptersCheckIgnoresRefresh(w) ==
  LET me == cw[w]
      cached == GetChapters(chapter, me.sid)
      m == GetManga(manga, me.sid)
      seen == [me EXCEPT !.hit = cached # << >>]
  IN /\ me.pc = "ch_check"
     /\ cw' = [cw EXCEPT ![w] =
                 IF cached # << >>
                   THEN Return(seen, [Reply(Ok) EXCEPT !.chapters = cached])
                 ELSE IF m = NoManga THEN Return(seen, Reply(StoreError))
                 ELSE IF ExtGet(exts, m.source) = NoHandle
                   THEN Panicked(seen, Panic)
                 ELSE [seen EXCEPT !.row = m, !.pc = "ch_fetch"]]
     /\ UNCHANGED storeVars
     /\ CallFrame

\* get_chapters up to the provider call: without refresh the cached
\* chapters are returned when the store has some; otherwise the manga is
\* read and its provider taken from the registry.
ChaptersCheck(w) ==
  LET me == cw[w]
      cached == GetChapters(chapter, me.sid)
      m == GetManga(manga, me.sid)
      seen == [me EXCEPT !.hit = cached # << >>]
  IN /\ me.pc = "ch_check"
     /\ cw' = [cw EXCEPT ![w] =
                 IF ~me.refresh /\ cached # << >>
                   THEN Return(seen, [Reply(Ok) EXCEPT !.chapters = cached])
                 ELSE IF m = NoManga THEN Return(seen, Reply(StoreError))
                 ELSE IF ExtGet(exts, m.source) = NoHandle
                   THEN Panicked(seen, Panic)
                 ELSE [seen EXCEPT !.row = m, !.pc = "ch_fetch"]]
     /\ UNCHANGED storeVars
     /\ CallFrame

\* The provider's get_chapters returns: an Err is returned as an error
\* value, a list goes on to be inserted.
ChaptersFetch(w) ==
  LET me == [cw[w] EXCEPT !.prov = Append(@, "chapters")]
  IN /\ cw[w].pc = "ch_fetch"
     /\ \E fetched \in BOOLEAN :
          cw' = [cw EXCEPT ![w] =
                   IF ~fetched
                     THEN Return([me EXCEPT !.perr = TRUE], Reply(ProviderError))
                   ELSE [me EXCEPT !.fetched = provider.chapters, !.k = 1,
                                   !.pc = IF provider.chapters = << >>
                                            THEN "ch_reread" ELSE "ch_insert"]]
     /\ UNCHANGED storeVars
     /\ CallFrame

\* insert_chapters, one row: the k-th chapter of the provider's list.
ChaptersInsert(w) ==
  LET me == cw[w]
  IN /\ me.pc = "ch_insert"
     /\ chapter' = InsertChapter(chapter, me.sid, me.row.source, me.fetched[me.k])
     /\ cw' = [cw EXCEPT ![w] =
                 [me EXCEPT !.wrote = TRUE, !.k = @ + 1,
                            !.pc = IF me.k = Len(me.fetched)
                                     THEN "ch_reread" ELSE "ch_insert"]]
     /\ UNCHANGED <<manga, page>>
     /\ CallFrame

\* The chapters are read again from the store and returned.
ChaptersReread(w) ==
  LET me == cw[w]
      rows == GetChapters(chapter, me.sid)
  IN /\ me.pc = "ch_reread"
     /\ cw' = [cw EXCEPT ![w] =
                 IF rows = << >> THEN Return(me, Reply(StoreError))
                 ELSE Return(me, [Reply(Ok) EXCEPT !.chapters = rows])]
     /\ UNCHANGED storeVars
     /\ CallFrame

\* get_pages with refresh: delete_pages, whose Err is logged and nothing
\* more.
PagesDelete(w) ==
  LET me == cw[w]
  IN /\ me.pc = "pg_delete"
     /\ \E deleted \in BOOLEAN :
          /\ page' = IF deleted THEN DeletePages(page, me.sid) ELSE page
          /\ cw' = [cw EXCEPT ![w] =
                      [me EXCEPT !.deleted = IF deleted THEN "yes" ELSE "failed",
                                 !.pc = "pg_check"]]
     /\ UNCHANGED <<manga, chapter>>
     /\ CallFrame

\* A get_pages that answers an unknown chapter with an empty page list.
PagesCheckNoNotFound(w) ==
  LET me == cw[w]
      cached == GetPages(page, me.sid)
      c == GetChapter(chapter, me.sid)
      seen == [me EXCEPT !.hit = cached # << >>]
  IN /\ me.pc = "pg_check"
     /\ cw' = [cw EXCEPT ![w] =
                 IF cached # << >> \/ c = NoChapter
                   THEN Return(seen, [Reply(Ok) EXCEPT
                                        !.pages = cached,
                                        !.manga_id = MangaOf(chapter, me.sid)])
                 ELSE IF ExtGet(exts, c.source) = NoHandle
                   THEN Panicked(seen, Panic)
                 ELSE [seen EXCEPT !.pc = "pg_fetch"]]
     /\ UNCHANGED storeVars
     /\ CallFrame

\* get_pages up to the provider call: cached pages are returned; without
\* them the chapter is read, and without a chapter the call fails; with one
\* its provider is taken from the registry.
PagesCheck(w) ==
  LET me == cw[w]
      cached == GetPages(page, me.sid)
      c == GetChapter(chapter, me.sid)
      seen == [me EXCEPT !.hit = cached # << >>]
  IN /\ me.pc = "pg_check"
     /\ cw' = [cw EXCEPT ![w] =
                 IF cached # << >>
                   THEN Return(seen, [Reply(Ok) EXCEPT
                                        !.pages = cached,
                                        !.manga_id = MangaOf(chapter, me.sid)])
                 ELSE IF c = NoChapter THEN Return(seen, Reply(NotFound))
                 ELSE IF ExtGet(exts, c.source) = NoHandle
                   THEN Panicked(seen, Panic)
                 ELSE [seen EXCEPT !.pc = "pg_fetch"]]
     /\ UNCHANGED storeVars
     /\ CallFrame

\* The provider's get_pages returns: an Err is unwrapped, a list is
\* inserted.
PagesFetch(w) ==
  LET me == [cw[w] EXCEPT !.prov = Append(@, "pages")]
  IN /\ cw[w].pc = "pg_fetch"
     /\ \E fetched \in BOOLEAN, stored \in BOOLEAN :
          IF ~fetched
            THEN /\ cw' = [cw EXCEPT ![w] =
                             Panicked([me EXCEPT !.perr = TRUE], PanicErr)]
                 /\ UNCHANGED storeVars
          ELSE IF ~stored
            THEN /\ cw' = [cw EXCEPT ![w] = Return(me, Reply(StoreError))]
                 /\ UNCHANGED storeVars
          ELSE /\ page' = InsertPages(page, me.sid, provider.pages)
               /\ cw' = [cw EXCEPT ![w] =
                           [me EXCEPT !.wrote = TRUE,
                                      !.fetched = provider.pages,
                                      !.pc = "pg_reread"]]
               /\ UNCHANGED <<manga, chapter>>
     /\ CallFrame

\* The pages are read again from the store and returned.
PagesReread(w) ==
  LET me == cw[w]
      rows == GetPages(page, me.sid)
  IN /\ me.pc = "pg_reread"
     /\ cw' = [cw EXCEPT ![w] =
                 IF rows = << >> THEN Return(me, Reply(StoreError))
                 ELSE Return(me, [Reply(Ok) EXCEPT
                                    !.pages = rows,
                                    !.manga_id = MangaOf(chapter, me.sid)])]
     /\ UNCHANGED storeVars
     /\ CallFrame

\* The worker is free for the next call.
CallReset(w) ==
  /\ cw[w].pc = "done"
  /\ cw' = [cw EXCEPT ![w] = IdleCall]
  /\ UNCHANGED storeVars
  /\ CallFrame

\* Detail::create: the component as it is built, nothing sent yet.
NewDetail ==
  [is_fetching |-> TRUE, should_fetch |-> TRUE, is_favorite |-> FALSE,
   requests |-> << >>, http |-> "none", msg |-> "none", sent |-> 0]

\* No cached operation in progress.
InitCallsIdle ==
  /\ cw = [w \in CacheWorkers |-> IdleCall]
  /\ ccalls = 0
  /\ overlay = [s \in Subjects |-> NoOverlay]
  /\ detail = NewDetail

\* The store and the provider of a run that makes no cached operation.
InitNoCache ==
  /\ manga = << >>
  /\ chapter = << >>
  /\ page = << >>
  /\ provider = [mangas |-> << >>, detail |-> NoManga, chapters |-> << >>,
                 pages |-> << >>]
  /\ InitCallsIdle

(* ------------------------------------------------------------------ *)
(* The system                                                           *)
(* ------------------------------------------------------------------ *)
\* The targets the model is built for: one with a library suffix, one without.
Platforms == {"linux", "freebsd"}

\* The index of the repository: foo alone, loadable by this host; or bar,
\* loadable, and a foo built against another core.
Catalogs ==
  { <<Entry("foo", V100, CORE_VERSION, RUSTC_VERSION)>>,
    <<Entry("bar", V123, CORE_VERSION, RUSTC_VERSION),
      Entry("foo", V100, "core-other", RUSTC_VERSION)>> }

\* The plugin directory and the registry at startup: nothing installed, or
\* foo 0.9.0 installed and loaded.
OldFoo ==
  [kind |-> "plugin", name |-> "foo", version |-> V090,
   core |-> CORE_VERSION, rustc |-> RUSTC_VERSION]

InitIdle ==
  /\ readers = {}
  /\ writer = 0
  /\ ipc = [p \in Installers |-> "idle"]
  /\ iname = [p \in Installers |-> ""]
  /\ ibytes = [p \in Installers |-> NoBytes]
  /\ iold = [p \in Installers |-> NoVersion]
  /\ ifd = [p \in Installers |-> "none"]
  /\ ires = [p \in Installers |-> NoResult]
  /\ rpc = [p \in Requesters |-> "idle"]
  /\ rsrc = [p \in Requesters |-> ""]
  /\ rhandle = [p \in Requesters |-> NoHandle]
  /\ rduring = [p \in Requesters |-> {}]
  /\ rres = [p \in Requesters |-> NoResult]

Init ==
  /\ os \in Platforms
  /\ catalog \in Catalogs
  /\ \E loaded \in BOOLEAN :
       /\ exts = IF loaded THEN <<[name |-> "foo", version |-> V090]>> ELSE << >>
       /\ files = [f \in FilePaths |->
                     IF loaded /\ f = FilePath("foo", Suffix(os))
                       THEN Complete(OldFoo) ELSE Absent]
  /\ InitIdle
  /\ lspc = "idle"
  /\ lsOut = << >>
  /\ started = [install |-> 0, request |-> 0]
  /\ InitNoCache

Next ==
  \/ \E p \in Installers, name \in SourceNames : InstallStart(p, name)
  \/ \E p \in Installers : InstallLockUnload(p)
  \/ \E p \in Installers : InstallUnload(p)
  \/ \E p \in Installers : InstallDownload(p)
  \/ \E p \in Installers : InstallWriteBegin(p)
  \/ \E p \in Installers : InstallWriteEnd(p)
  \/ \E p \in Installers : InstallLockLoad(p)
  \/ \E p \in Installers : InstallLoad(p)
  \/ \E p \in Installers : InstallReturn(p)
  \/ \E p \in Requesters, source \in SourceNames : ReqAcquire(p, source)
  \/ \E p \in Requesters : ReqLookup(p)
  \/ \E p \in Requesters : ReqReturn(p)
  \/ \E p \in Requesters : ReqReset(p)

Spec == Init /\ [][Next]_vars

(* ------------------------------------------------------------------ *)
(* Claims about install_source and the registry                         *)
(* ------------------------------------------------------------------ *)
InRegistry(h) == \E k \in DOMAIN exts : exts[k] = h

NameAbsent(name) == \A k \in DOMAIN catalog : catalog[k].name # name

NoSuffix == os \notin {"windows", "macos", "linux"}

\* C1: while a content request is inside a provider call, the handle it
\* borrowed is still in the registry, and the unload step of an install holds
\* the exclusive guard only when no request holds the shared one.
C1_NoUnloadDuringCall ==
  /\ \A p \in Requesters : rpc[p] = "calling" => InRegistry(rhandle[p])
  /\ \A i \in Installers : ipc[i] = "unload" => readers = {}

\* A request is inside a provider call of a source while an install of that
\* source waits for the exclusive guard of its unload step.
C1_Witness ==
  \E p \in Requesters, i \in Installers :
    /\ rpc[p] = "calling"
    /\ ipc[i] = "unload_wait"
    /\ iname[i] = rsrc[p]

C3_UnloadWriteLoadOrder ==
  \A p \in Installers :
    /\ ipc[p] = "writing" => ExtGet(exts, iname[p]) = NoHandle
    /\ ipc[p] = "load" => files[InstallPath(p)].status = "complete"

\* C4: an install that returns Ok leaves exactly one handle of the source in
\* the registry, of the version the index offers; the version it unloaded is
\* no longer there.
C4_InstallReplacesVersion ==
  [][\A p \in Installers :
       (ipc[p] = "load" /\ ipc'[p] = "done" /\ ires'[p] = Ok) =>
         /\ Cardinality(Slots(exts', iname[p])) = 1
         /\ \A k \in DOMAIN catalog :
              (catalog[k].name = iname[p] /\
               \A j \in DOMAIN catalog : catalog[j].name = iname[p] => k <= j) =>
                \A h \in Slots(exts', iname[p]) :
                  exts'[h].version = catalog[k].version]_vars

\* An install of foo returned Ok after unloading foo 0.9.0, and the registry
\* answers foo with version 1.0.0.
C4_Witness ==
  \E p \in Installers :
    /\ ipc[p] = "done" /\ ires[p] = Ok
    /\ iname[p] = "foo" /\ iold[p] = V090
    /\ ExtGet(exts, "foo") = [name |-> "foo", version |-> V100]

\* C5 as stated: a request that overlaps a successful install of a source that
\* was loaded before the install never finds the source absent.
C5_NeverObservesAbsent ==
  \A p \in Requesters, i \in Installers :
    ( /\ rpc[p] = "done"
      /\ i \in rduring[p]
      /\ iname[i] = rsrc[p]
      /\ iold[i] # NoVersion
      /\ ipc[i] = "done" /\ ires[i] = Ok ) => rres[p] # Panic

\* C5 as amended: the registry does not change while a request holds the
\* shared guard, and a request inside a provider call has the handle the
\* registry holds for its source.
C5_RegistryStableUnderSharedLock ==
  [][ /\ (readers # {} /\ readers' # {}) => exts' = exts
      /\ \A p \in Requesters :
           rpc'[p] = "calling" => ExtGet(exts', rsrc'[p]) = rhandle'[p] ]_vars

\* A request took the shared guard between the unload and the reload of an
\* install that then returned Ok, and found the source absent.
C5_Witness ==
  \E p \in Requesters, i \in Installers :
    /\ rpc[p] = "done" /\ rres[p] = Panic
    /\ i \in rduring[p]
    /\ iname[i] = rsrc[p]
    /\ iold[i] # NoVersion
    /\ ipc[i] = "done" /\ ires[i] = Ok

\* C6: an install of a name absent from the index returns SourceNotFound, an
\* install of a listed name on a platform without a library suffix returns
\* UnsupportedPlatform, and both leave the registry and the plugin directory
\* as they were.
C6_EarlyFailuresChangeNothing ==
  [][\A p \in Installers :
       (ipc[p] = "idle" /\ ipc'[p] # "idle") =>
         /\ NameAbsent(iname'[p]) =>
              ipc'[p] = "done" /\ ires'[p] = SourceNotFound
         /\ (~NameAbsent(iname'[p]) /\ NoSuffix) =>
              ipc'[p] = "done" /\ ires'[p] = UnsupportedPlatform
         /\ ipc'[p] = "done" =>
              /\ ires'[p] \in {SourceNotFound, UnsupportedPlatform}
              /\ exts' = exts /\ files' = files
              /\ readers' = readers /\ writer' = writer]_vars

\* One install has returned SourceNotFound and another UnsupportedPlatform.
C6_Witness ==
  \E i, j \in Installers :
    /\ ipc[i] = "done" /\ ires[i] = SourceNotFound
    /\ ipc[j] = "done" /\ ires[j] = UnsupportedPlatform

\* C7: when an install fails at the download or at the write, the registry
\* has no handle of the source at that moment.
C7_FailureLeavesUnloaded ==
  [][\A p \in Installers :
       (ipc[p] \in {"download", "write", "writing"} /\ ipc'[p] = "done") =>
         ExtGet(exts', iname[p]) = NoHandle]_vars

\* C8: the load block calls load only when the registry has no handle of the
\* name; when the load fails the install returns its error and the registry
\* has no handle of the source; a library whose core or toolchain version is
\* not the host's fails with AbiMismatch.
C8_LoadOnlyWhenAbsent ==
  [][\A p \in Installers :
       (ipc[p] = "load" /\ ipc'[p] = "done") =>
         LET file == files[InstallPath(p)]
             had == Slots(exts, iname[p]) # {}
         IN /\ had => (exts' = exts /\ ires'[p] = Ok)
            /\ ires'[p] # Ok => (exts' = exts /\ Slots(exts', iname[p]) = {})
            /\ ires'[p] = Ok => Slots(exts', iname[p]) # {}
            /\ ( /\ ~had
                 /\ file.status = "complete" /\ file.kind = "plugin"
                 /\ (file.core # CORE_VERSION \/ file.rustc # RUSTC_VERSION) )
               => ires'[p] = AbiMismatch]_vars

\* An install has returned AbiMismatch and the registry has no handle of the
\* source.
C8_Witness ==
  \E p \in Installers :
    /\ ipc[p] = "done" /\ ires[p] = AbiMismatch
    /\ ExtGet(exts, iname[p]) = NoHandle

(* ------------------------------------------------------------------ *)
(* list_sources                                                         *)
(* ------------------------------------------------------------------ *)
\* The first position of a dot in a string, 0 when it has none.
FirstDot(s) ==
  IF \E k \in DOMAIN s : s[k] = "."
    THEN CHOOSE k \in DOMAIN s : s[k] = "." /\ \A j \in 1 .. (k - 1) : s[j] # "."
    ELSE 0

\* str::split("."): the pieces between the dots.
RECURSIVE SplitDot(_)
SplitDot(s) ==
  IF FirstDot(s) = 0 THEN <<s>>
  ELSE <<SubSeq(s, 1, FirstDot(s) - 1)>>
         \o SplitDot(SubSeq(s, FirstDot(s) + 1, Len(s)))

DigitValue(c) ==
  CASE c = "0" -> 0 [] c = "1" -> 1 [] c = "2" -> 2 [] c = "3" -> 3
    [] c = "4" -> 4 [] c = "5" -> 5 [] c = "6" -> 6 [] c = "7" -> 7
    [] c = "8" -> 8 [] c = "9" -> 9

\* str::parse::<i32>() of a string of decimal digits (the unwrap panics on
\* anything else).
RECURSIVE ParseI32(_)
ParseI32(s) ==
  IF Len(s) = 1 THEN DigitValue(s[1])
  ELSE ParseI32(SubSeq(s, 1, Len(s) - 1)) * 10 + DigitValue(s[Len(s)])

\* version.split(".").map(|v| v.parse::<i32>().unwrap()).collect()
ParseVersion(v) == [k \in DOMAIN SplitDot(v) |-> ParseI32(SplitDot(v)[k])]

\* A comparison that stops at the minor component.
UpdateFlagNoPatch(update, installed, available) ==
  IF installed[1] < available[1] THEN TRUE
  ELSE IF installed[1] = available[1] /\ installed[2] < available[2] THEN TRUE
  ELSE update

\* The if / else if chain that sets s.update; the flag keeps its value when no
\* branch is taken.
UpdateFlag(update, installed, available) ==
  IF installed[1] < available[1] THEN TRUE
  ELSE IF installed[1] = available[1] /\ installed[2] < available[2] THEN TRUE
  ELSE IF installed[1] = available[1] /\ installed[2] = available[2]
          /\ installed[3] < available[3] THEN TRUE
  ELSE update

\* An annotation that reports the version of the index as the installed one.
AnnotateEntryIndexVersion(s, reg) ==
  IF ExtGet(reg, s.name) # NoHandle
    THEN [s EXCEPT !.installed = TRUE, !.installed_version = s.version]
    ELSE s

\* The closure of the map: the entry annotated from the loaded extension of
\* its name, if there is one.
AnnotateEntry(s, reg) ==
  IF ExtGet(reg, s.name) # NoHandle
    THEN LET ext == ExtGet(reg, s.name)
             flag == UpdateFlag(s.update, ParseVersion(ext.version),
                                ParseVersion(s.version))
         IN [s EXCEPT !.installed = TRUE,
                      !.installed_version = ext.version,
                      !.update = IF s.core_version # CORE_VERSION
                                    \/ s.rustc_version # RUSTC_VERSION
                                   THEN FALSE ELSE flag]
    ELSE s

\* list_sources: fetch the index, take the shared guard, annotate every entry
\* in order, reply.
ListSources ==
  /\ lspc = "idle"
  /\ CanRead
  /\ lsOut' = [k \in DOMAIN catalog |-> AnnotateEntry(catalog[k], exts)]
  /\ lspc' = "done"
  /\ UNCHANGED <<envVars, userVars, cacheVars, callVars, regVars, files, instVars, reqVars>>

\* The versions, the entries and the registries list_sources is tried on.
ListVersions == {V123, V124, V129, V130, V1100}

ListEntries ==
  {Entry("foo", v, a[1], a[2]) :
     v \in ListVersions,
     a \in {<<CORE_VERSION, RUSTC_VERSION>>, <<"core-other", RUSTC_VERSION>>,
            <<CORE_VERSION, "rustc-other">>}}
  \cup {Entry("bar", v, CORE_VERSION, RUSTC_VERSION) : v \in {V123, V124}}

ListRegistries ==
  {f \o b : f \in {<< >>} \cup {<<[name |-> "foo", version |-> v]>> : v \in ListVersions},
            b \in {<< >>, <<[name |-> "bar", version |-> V123]>>}}

InitList ==
  /\ os = "linux"
  /\ catalog \in UNION {[1 .. n -> ListEntries] : n \in 0 .. MaxEntries}
  /\ exts \in ListRegistries
  /\ files = [f \in FilePaths |-> Absent]
  /\ InitIdle
  /\ lspc = "idle"
  /\ lsOut = << >>
  /\ started = [install |-> 0, request |-> 0]
  /\ InitNoCache

NextList == ListSources

SpecList == InitList /\ [][NextList]_vars

(* ------------------------------------------------------------------ *)
(* Claims about list_sources                                            *)
(* ------------------------------------------------------------------ *)
\* The (major, minor, patch) triple each version string stands for.
TripleOf(v) ==
  CASE v = V123 -> <<1, 2, 3>> [] v = V124 -> <<1, 2, 4>>
    [] v = V129 -> <<1, 2, 9>> [] v = V130 -> <<1, 3, 0>>
    [] v = V1100 -> <<1, 10, 0>>

TripleLess(a, b) ==
  \E k \in 1 .. 3 : a[k] < b[k] /\ \A j \in 1 .. (k - 1) : a[j] = b[j]

Loaded(name) == \E k \in DOMAIN exts : exts[k].name = name

LoadedVersion(name) == exts[CHOOSE k \in DOMAIN exts : exts[k].name = name].version

\* C9: for every entry whose source is loaded, update is true exactly when the
\* installed triple is lexicographically less than the entry's and the entry's
\* core and toolchain versions are the host's.
C9_UpdateAvailable ==
  lspc = "done" =>
    \A k \in DOMAIN catalog :
      Loaded(catalog[k].name) =>
        ( lsOut[k].update <=>
            /\ TripleLess(TripleOf(LoadedVersion(catalog[k].name)),
                          TripleOf(catalog[k].version))
            /\ catalog[k].core_version = CORE_VERSION
            /\ catalog[k].rustc_version = RUSTC_VERSION )

\* list_sources has replied, with foo 1.2.9 loaded, to an index that offers
\* foo 1.10.0 for this host and foo 1.10.0 for another core: the first is an
\* update and the second is not.
C9_Witness ==
  /\ lspc = "done"
  /\ ExtGet(exts, "foo") = [name |-> "foo", version |-> V129]
  /\ Len(catalog) = 2
  /\ catalog[1] = Entry("foo", V1100, CORE_VERSION, RUSTC_VERSION)
  /\ catalog[2] = Entry("foo", V1100, "core-other", RUSTC_VERSION)
  /\ lsOut[1].update /\ ~lsOut[2].update

\* C10: the reply has the entries of the index in their order; an entry is
\* marked installed, with the version of the loaded handle, exactly when a
\* handle of its name is loaded; an entry with no loaded handle is returned as
\* fetched; name, path and versions of the index are never changed.
C10_InstalledAnnotation ==
  lspc = "done" =>
    /\ Len(lsOut) = Len(catalog)
    /\ \A k \in DOMAIN catalog :
         /\ lsOut[k].installed <=> Loaded(catalog[k].name)
         /\ Loaded(catalog[k].name) =>
              lsOut[k].installed_version = LoadedVersion(catalog[k].name)
         /\ ~Loaded(catalog[k].name) => lsOut[k] = catalog[k]
         /\ [lsOut[k] EXCEPT !.installed = FALSE, !.installed_version = NoVersion,
                             !.update = FALSE] = catalog[k]

\* list_sources has replied to an index of bar and foo with only foo loaded,
\* at a version that differs from the index's.
C10_Witness ==
  /\ lspc = "done"
  /\ Len(catalog) = 2
  /\ catalog[1].name = "bar" /\ catalog[2].name = "foo"
  /\ ~Loaded("bar") /\ Loaded("foo")
  /\ LoadedVersion("foo") # catalog[2].version
  /\ lsOut[1] = catalog[1]
  /\ lsOut[2].installed /\ lsOut[2].installed_version = LoadedVersion("foo")

(* ------------------------------------------------------------------ *)
(* Claims about the errors of the content operations                    *)
(* ------------------------------------------------------------------ *)
\* The error kind of a source that is not loaded.
NotInstalled == "not installed"

\* C11: a content operation that needs a provider whose source is not
\* loaded returns the typed error NotInstalled to its caller, with the
\* shared lock released and the worker not aborted.
C11_NotInstalledIsTyped ==
  \A p \in Requesters :
    rpc[p] = "done" /\ rhandle[p] = NoHandle =>
      rres[p] = NotInstalled /\ p \notin readers

(* ------------------------------------------------------------------ *)
(* The cached content operations as systems                             *)
(* ------------------------------------------------------------------ *)
\* What the provider of foo serves: one manga, with or without a
\* description; one or two chapters; one or two pages a chapter.
FullDetail ==
  MangaRow(0, "foo", "m1", Some("ongoing"), <<"au">>, Some("about"))
Providers ==
  {[mangas |-> <<"m1">>, detail |-> d, chapters |-> c, pages |-> p] :
     d \in {FullDetail, [FullDetail EXCEPT !.description = None]},
     c \in {<<"1">>, <<"1", "2">>},
     p \in {<<"a">>, <<"a", "b">>}}

\* The stores earlier calls can have left: the manga listed or not, its
\* detail fetched or not; its chapters fetched or not; the pages of
\* chapter 1 fetched or not, from a list the provider has changed since.
MangaTables ==
  {<< >>,
   <<MangaRow(1, "foo", "m1", None, << >>, None)>>,
   <<MangaRow(1, "foo", "m1", Some("ongoing"), <<"au">>, None)>>,
   <<MangaRow(1, "foo", "m1", Some("ongoing"), <<"au">>, Some("about"))>>}
ChapterTables ==
  {<< >>, <<ChapterRow(1, 1, "foo", "1")>>,
   <<ChapterRow(1, 1, "foo", "1"), ChapterRow(2, 1, "foo", "2")>>}
PageTables ==
  {<< >>, <<PageRow(1, 0, "a")>>,
   <<PageRow(1, 0, "x"), PageRow(1, 1, "y"), PageRow(1, 2, "z")>>}

\* A store with its rows in place: chapters only of a manga that has a
\* row, pages only of a chapter that has one.
InitStore ==
  /\ manga \in MangaTables
  /\ chapter \in IF manga = << >> THEN {<< >>} ELSE ChapterTables
  /\ page \in IF chapter = << >> THEN {<< >>} ELSE PageTables

\* The rest of the system at rest, foo loaded or not.
InitRest ==
  /\ os = "linux"
  /\ catalog = << >>
  /\ exts \in {<< >>, <<[name |-> "foo", version |-> V100]>>}
  /\ files = [f \in FilePaths |-> Absent]
  /\ InitIdle
  /\ lspc = "idle"
  /\ lsOut = << >>
  /\ started = [install |-> 0, request |-> 0]
  /\ InitCallsIdle

\* The four content kinds, one call after the other on one worker.
InitContent ==
  /\ InitRest
  /\ InitStore
  /\ provider \in Providers

NextContent ==
  \/ \E w \in {1} : MangasStart(w)
  \/ \E w \in {1}, id \in {1, 2} : InfoStart(w, id)
  \/ \E w \in {1}, id \in {1, 2}, refresh \in BOOLEAN :
       ChaptersStart(w, id, refresh)
  \/ \E w \in {1}, id \in {1, 3}, refresh \in BOOLEAN :
       PagesStart(w, id, refresh)
  \/ \E w \in CacheWorkers : MangasLookup(w)
  \/ \E w \in CacheWorkers : MangasFetch(w)
  \/ \E w \in CacheWorkers : MangasInsert(w)
  \/ \E w \in CacheWorkers : MangasReread(w)
  \/ \E w \in CacheWorkers : InfoCheck(w)
  \/ \E w \in CacheWorkers : InfoFetch(w)
  \/ \E w \in CacheWorkers : ChaptersCheck(w)
  \/ \E w \in CacheWorkers : ChaptersFetch(w)
  \/ \E w \in CacheWorkers : ChaptersInsert(w)
  \/ \E w \in CacheWorkers : ChaptersReread(w)
  \/ \E w \in CacheWorkers : PagesDelete(w)
  \/ \E w \in CacheWorkers : PagesCheck(w)
  \/ \E w \in CacheWorkers : PagesFetch(w)
  \/ \E w \in CacheWorkers : PagesReread(w)
  \/ \E w \in CacheWorkers : CallReset(w)

SpecContent == InitContent /\ [][NextContent]_vars

(* ------------------------------------------------------------------ *)
(* Claims about the cached content operations                           *)
(* ------------------------------------------------------------------ *)
ContentKinds == {"mangas", "info", "chapters", "pages"}

\* C12: for each of the four content kinds a call that went to the
\* provider returns success when the fetch and the persist step succeeded,
\* and returns the error value ProviderError, not a crash, when the fetch
\* failed.
C12_ProviderErrorIsTyped ==
  \A w \in CacheWorkers :
    cw[w].pc = "done" /\ cw[w].op \in ContentKinds =>
      /\ cw[w].perr => cw[w].res.kind = ProviderError
      /\ cw[w].prov # << >> /\ ~cw[w].perr /\ cw[w].wrote => cw[w].res.kind = Ok

\* get_manga_info alone, on both workers.
InitInfo ==
  /\ InitContent
  /\ chapter = << >>
  /\ provider.chapters = <<"1">>
  /\ provider.pages = <<"a">>

NextInfo ==
  \/ \E w \in CacheWorkers, id \in {1, 2} : InfoStart(w, id)
  \/ \E w \in CacheWorkers : InfoCheck(w)
  \/ \E w \in CacheWorkers : InfoFetch(w)
  \/ \E w \in CacheWorkers : CallReset(w)

SpecInfo == InitInfo /\ [][NextInfo]_vars

\* C13: get_manga_info returns the cached row, with no provider call and no
\* write, exactly when the row it read has a status, a non-empty author list
\* and a description; on any other row it takes the provider of the row's
\* source, and a call that then returns a row has called the provider's
\* detail fetch once, has updated the row and returns the row as stored.
C13_CachedIffComplete ==
  \A w \in CacheWorkers :
    LET me == cw[w]
    IN me.pc = "done" /\ me.op = "info" /\ me.row # NoManga =>
         IF IsComplete(me.row)
           THEN /\ me.res.kind = Ok /\ me.res.manga = me.row
                /\ me.prov = << >> /\ ~me.wrote
           ELSE /\ ExtGet(exts, me.row.source) # NoHandle => me.prov = <<"info">>
                /\ me.prov = <<"info">> /\ ~me.perr /\ me.wrote => me.res.kind = Ok
                /\ me.res.kind = Ok =>
                     /\ me.prov = <<"info">> /\ me.wrote
                     /\ me.res.manga = GetManga(manga, me.id)

\* An incomplete row was read, the provider called, and the row returned is
\* the refined one.
C13_Witness ==
  \E w \in CacheWorkers :
    /\ cw[w].pc = "done" /\ cw[w].op = "info" /\ cw[w].res.kind = Ok
    /\ ~IsComplete(cw[w].row) /\ cw[w].prov = <<"info">>
    /\ IsComplete(cw[w].res.manga)

\* C14: with the provider's data unchanged, once a get_manga_info of a
\* manga has returned its row no later get_manga_info step changes the manga
\* table (same rows, same count, no second row for a natural key); and a
\* call that starts after one has returned a complete row makes no provider
\* call and no cache write.
C14_DetailIdempotent ==
  [][/\ (\E v \in CacheWorkers :
           cw[v].pc = "done" /\ cw[v].op = "info" /\ cw[v].res.kind = Ok)
          => manga' = manga
     /\ \A w \in CacheWorkers :
          cw'[w].pc = "done" /\ cw'[w].op = "info" /\ cw'[w].prior = "complete"
            => cw'[w].prov = << >> /\ ~cw'[w].wrote]_vars

\* A second call that found the row still incomplete, fetched again and
\* wrote again, next to the first call's reply.
C14_Witness ==
  \E w \in CacheWorkers, v \in CacheWorkers :
    /\ v # w
    /\ cw[v].pc = "done" /\ cw[v].op = "info" /\ cw[v].res.kind = Ok
    /\ cw[w].pc = "done" /\ cw[w].op = "info" /\ cw[w].res.kind = Ok
    /\ cw[w].prior = "incomplete" /\ cw[w].wrote
    /\ cw[w].res.manga = cw[v].res.manga

\* get_chapters alone, on both workers.
InitChapters ==
  /\ InitContent
  /\ page = << >>
  /\ provider.detail = FullDetail
  /\ provider.pages = <<"a">>

NextChapters ==
  \/ \E w \in CacheWorkers, id \in {1, 2}, refresh \in BOOLEAN :
       ChaptersStart(w, id, refresh)
  \/ \E w \in CacheWorkers : ChaptersCheck(w)
  \/ \E w \in CacheWorkers : ChaptersFetch(w)
  \/ \E w \in CacheWorkers : ChaptersInsert(w)
  \/ \E w \in CacheWorkers : ChaptersReread(w)
  \/ \E w \in CacheWorkers : CallReset(w)

SpecChapters == InitChapters /\ [][NextChapters]_vars

\* C15: a get_chapters without refresh that finds chapters of the manga in
\* the cache returns them with no provider call and no cache write; a call
\* that finds none, and every call with refresh whatever the cache holds,
\* queries the provider (of a manga that has a row and whose source is
\* loaded).
C15_CacheAuthoritativeUnlessRefresh ==
  \A w \in CacheWorkers :
    LET me == cw[w]
    IN me.pc = "done" /\ me.op = "chapters" =>
         IF ~me.refresh /\ me.hit
           THEN me.prov = << >> /\ ~me.wrote /\ me.res.kind = Ok
           ELSE GetManga(manga, me.id) # NoManga
                  /\ ExtGet(exts, GetManga(manga, me.id).source) # NoHandle
                => me.prov = <<"chapters">>

\* A forced refresh went to the provider although the cache held chapters.
C15_Witness ==
  \E w \in CacheWorkers :
    /\ cw[w].pc = "done" /\ cw[w].op = "chapters"
    /\ cw[w].refresh /\ cw[w].hit /\ cw[w].prov = <<"chapters">>
    /\ cw[w].res.kind = Ok

\* No two chapter rows with the same manga and chapter number.
OneRowPerChapter ==
  \A j \in DOMAIN chapter, k \in DOMAIN chapter :
    chapter[j].manga_id = chapter[k].manga_id
      /\ chapter[j].number = chapter[k].number => j = k

\* A forced get_chapters of manga m that has returned its list.
Refreshed(w, m) ==
  /\ cw[w].pc = "done" /\ cw[w].op = "chapters" /\ cw[w].refresh
  /\ cw[w].id = m /\ cw[w].res.kind = Ok

\* C16: forced get_chapters refreshes, one after the other or at the same
\* time, with the provider's output unchanged, keep one chapter row per
\* (manga, chapter number); once a refresh has returned, no later refresh
\* step adds a row, and every refresh returns the same list.
C16_RefreshIdempotent ==
  [][/\ OneRowPerChapter'
     /\ (\E v \in CacheWorkers, m \in {1, 2} : Refreshed(v, m))
          => chapter' = chapter
     /\ \A w \in CacheWorkers, v \in CacheWorkers, m \in {1, 2} :
          Refreshed(w, m)' /\ Refreshed(v, m)'
            => cw'[w].res.chapters = cw'[v].res.chapters]_vars

\* Two forced refreshes of one manga have both fetched, inserted and
\* returned, on a table that holds each of the provider's chapters once.
C16_Witness ==
  \E w \in CacheWorkers, v \in CacheWorkers :
    /\ v # w
    /\ Refreshed(w, 1) /\ Refreshed(v, 1)
    /\ cw[w].wrote /\ cw[v].wrote
    /\ Len(cw[w].res.chapters) = 2

\* get_pages alone, on both workers.
InitPages ==
  /\ InitContent
  /\ manga = <<[FullDetail EXCEPT !.id = 1]>>
  /\ provider.detail = FullDetail
  /\ provider.chapters = <<"1">>

NextPages ==
  \/ \E w \in CacheWorkers, id \in {1, 3}, refresh \in BOOLEAN :
       PagesStart(w, id, refresh)
  \/ \E w \in CacheWorkers : PagesDelete(w)
  \/ \E w \in CacheWorkers : PagesCheck(w)
  \/ \E w \in CacheWorkers : PagesFetch(w)
  \/ \E w \in CacheWorkers : PagesReread(w)
  \/ \E w \in CacheWorkers : CallReset(w)

SpecPages == InitPages /\ [][NextPages]_vars

\* The step by which the call of w returns.
Returns(w) == cw[w].pc # "done" /\ cw'[w].pc = "done"

\* C17: a forced get_pages refresh that returns pages, or that has
\* inserted the provider's pages, returns the provider's current output and
\* leaves exactly that output cached for the chapter, whether or not the
\* delete step failed and whether or not another forced refresh of the same
\* chapter runs at the same time.
C17_RefreshReplacesPages ==
  [][\A w \in CacheWorkers :
       (/\ Returns(w)
        /\ cw'[w].op = "pages"
        /\ cw'[w].refresh
        /\ (cw'[w].res.kind = Ok \/ cw'[w].wrote))
       => (/\ cw'[w].res.kind = Ok
           /\ cw'[w].res.pages = provider.pages
           /\ GetPages(page', cw'[w].id) = provider.pages)]_vars

\* C18: get_pages fails with NotFound exactly when, after the delete of a
\* refresh if one was asked for, the cache holds no page of the chapter and
\* the chapter has no record, and then it has called no provider and written
\* nothing; a call without refresh that finds cached pages returns them
\* with no provider call.
C18_NotFoundIffNothingKnown ==
  \A w \in CacheWorkers :
    LET me == cw[w]
    IN me.pc = "done" /\ me.op = "pages" =>
         /\ me.res.kind = NotFound
              <=> (~me.hit /\ GetChapter(chapter, me.id) = NoChapter)
         /\ me.res.kind = NotFound => me.prov = << >> /\ ~me.wrote
         /\ me.hit /\ ~me.refresh =>
              /\ me.res.kind = Ok /\ me.res.pages # << >>
              /\ me.prov = << >> /\ ~me.wrote

\* A forced get_pages of a chapter that has neither pages nor a record has
\* failed with NotFound after its delete.
C18_Witness ==
  \E w \in CacheWorkers :
    /\ cw[w].pc = "done" /\ cw[w].op = "pages" /\ cw[w].id = 3
    /\ cw[w].refresh /\ cw[w].deleted = "yes"
    /\ cw[w].res.kind = NotFound /\ cw[w].prov = << >>

\* The composite read, one call after the other on one worker.
NextRead ==
  \/ \E w \in {1}, id \in {1, 3}, refresh \in BOOLEAN : ReadStart(w, id, refresh)
  \/ \E w \in CacheWorkers : InfoCheck(w)
  \/ \E w \in CacheWorkers : InfoFetch(w)
  \/ \E w \in CacheWorkers : ChaptersCheck(w)
  \/ \E w \in CacheWorkers : ChaptersFetch(w)
  \/ \E w \in CacheWorkers : ChaptersInsert(w)
  \/ \E w \in CacheWorkers : ChaptersReread(w)
  \/ \E w \in CacheWorkers : PagesDelete(w)
  \/ \E w \in CacheWorkers : PagesCheck(w)
  \/ \E w \in CacheWorkers : PagesFetch(w)
  \/ \E w \in CacheWorkers : PagesReread(w)
  \/ \E w \in CacheWorkers : CallReset(w)

SpecRead == InitContent /\ [][NextRead]_vars

\* The sub-fetches of read in the order of the code.
ReadOrder == <<"pages", "chapters", "info">>

\* C20: read starts its sub-fetches in the order pages, chapters, manga
\* detail; the first one that returns an error ends the call, which returns
\* that same error as its own error value and starts no later sub-fetch; an
\* aggregate is returned only after all three.
C20_ReadShortCircuits ==
  \A w \in CacheWorkers :
    LET me == cw[w]
    IN me.op = "read" =>
         /\ Len(me.stages) <= 3
         /\ me.stages = SubSeq(ReadOrder, 1, Len(me.stages))
         /\ me.pc = "done" /\ me.failed # "none" => me.res.kind = me.failed
         /\ me.pc = "done" /\ me.res.kind = Ok => me.stages = ReadOrder

(* ------------------------------------------------------------------ *)
(* Claims about what a failed read leaves behind                        *)
(* ------------------------------------------------------------------ *)
\* The composite read on worker 1, and get_pages and get_chapters without
\* refresh on worker 2.
NextReadThenGet ==
  \/ NextRead
  \/ \E w \in {2}, id \in {1, 3} : PagesStart(w, id, FALSE)
  \/ \E w \in {2}, id \in {1, 2} : ChaptersStart(w, id, FALSE)

SpecReadThenGet == InitContent /\ [][NextReadThenGet]_vars

\* A read that has failed after n - 1 of its sub-fetches had succeeded.
FailedRead(v, n) ==
  /\ cw[v].pc = "done" /\ cw[v].op = "read"
  /\ cw[v].res.kind # Ok /\ Len(cw[v].stages) >= n

\* C21: the step by which a read fails changes no cache row, and once a
\* read has failed after its pages (and chapters) sub-fetch succeeded, a
\* get_pages (get_chapters) without refresh for the same chapter (manga)
\* that consults the cache finds the rows and returns them with no
\* provider call.
C21_FailedReadKeepsRows ==
  [][/\ \A v \in CacheWorkers :
          (Returns(v) /\ cw'[v].op = "read" /\ cw'[v].res.kind # Ok)
            => storeVars' = storeVars
     /\ \A v \in CacheWorkers, w \in CacheWorkers :
          /\ (/\ FailedRead(v, 2)
              /\ cw[w].op = "pages" /\ cw[w].pc = "pg_check"
              /\ ~cw[w].refresh /\ cw[w].id = cw[v].id
              /\ cw'[w] # cw[w])
             => (/\ cw'[w].pc = "done" /\ cw'[w].res.kind = Ok
                 /\ cw'[w].res.pages # << >> /\ cw'[w].prov = << >>)
          /\ (/\ FailedRead(v, 3)
              /\ cw[w].op = "chapters" /\ cw[w].pc = "ch_check"
              /\ ~cw[w].refresh /\ cw[w].id = cw[v].sid
              /\ cw'[w] # cw[w])
             => (/\ cw'[w].pc = "done" /\ cw'[w].res.kind = Ok
                 /\ cw'[w].res.chapters # << >> /\ cw'[w].prov = << >>)]_vars

\* A read fetched and cached the pages of a chapter and then failed at the
\* manga detail; a get_pages of the chapter has since been served from the
\* cache.
C21_Witness ==
  \E v \in CacheWorkers, w \in CacheWorkers :
    /\ FailedRead(v, 3) /\ cw[v].prov = <<"pages", "info">> /\ cw[v].wrote
    /\ cw[w].pc = "done" /\ cw[w].op = "pages" /\ cw[w].id = cw[v].id
    /\ cw[w].hit /\ cw[w].prov = << >> /\ cw[w].res.kind = Ok

(* ------------------------------------------------------------------ *)
(* proxy_image                                                          *)
(* ------------------------------------------------------------------ *)
\* warp::reject(): the 404 Not Found rejection.
Reject == "rejection: not found"

\* repo.get_image_from_page_id: the source and the image reference stored
\* with the page, or Err. The id of a page row is its place in the table,
\* no row being deleted while images are served.
NoImage == [source |-> "", url |-> ""]
GetImageFromPageId(pages, chapters, pid) ==
  IF pid \in DOMAIN pages
    THEN [source |-> GetChapter(chapters, pages[pid].chapter_id).source,
          url |-> pages[pid].url]
    ELSE NoImage

ImageStart(w, pid) == CallStart(w, "image", pid, FALSE)

\* The frame of a step of proxy_image, which takes the shared lock.
ImageFrame ==
  UNCHANGED <<envVars, userVars, callVars, exts, writer, files, instVars, reqVars,
              listVars, storeVars, provider, ccalls>>

\* The page id is resolved through the cache before any lock is taken; an
\* id the cache does not know is rejected.
ImageResolve(w) ==
  LET me == cw[w]
      img == GetImageFromPageId(page, chapter, me.id)
  IN /\ me.pc = "img_resolve"
     /\ cw' = [cw EXCEPT ![w] =
                 IF img = NoImage THEN Return(me, Reply(Reject))
                 ELSE [me EXCEPT !.fetched = <<img.source, img.url>>,
                                 !.pc = "img_lock"]]
     /\ UNCHANGED readers
     /\ ImageFrame

\* let exts = self.exts.read().unwrap();
ImageLock(w) ==
  /\ cw[w].pc = "img_lock"
  /\ CanRead
  /\ readers' = readers \cup {w}
  /\ cw' = [cw EXCEPT ![w] = [@ EXCEPT !.locked = TRUE, !.pc = "img_lookup"]]
  /\ ImageFrame

\* A lookup that takes the first handle of the registry, whatever its name.
ImageLookupFirstHandle(w) ==
  LET me == cw[w]
      h == IF exts = << >> THEN NoHandle ELSE exts[1]
  IN /\ me.pc = "img_lookup"
     /\ IF h = NoHandle
          THEN /\ cw' = [cw EXCEPT ![w] = Panicked(me, Panic)]
               /\ readers' = readers \ {w}
          ELSE /\ cw' = [cw EXCEPT ![w] =
                           [me EXCEPT !.handle = h, !.pc = "img_fetch"]]
               /\ UNCHANGED readers
     /\ ImageFrame

\* exts.get(&source).unwrap(): the provider of the source stored with the
\* page, or a panic that drops the guard.
ImageLookup(w) ==
  LET me == cw[w]
      h == ExtGet(exts, me.fetched[1])
  IN /\ me.pc = "img_lookup"
     /\ IF h = NoHandle
          THEN /\ cw' = [cw EXCEPT ![w] = Panicked(me, Panic)]
               /\ readers' = readers \ {w}
          ELSE /\ cw' = [cw EXCEPT ![w] =
                           [me EXCEPT !.handle = h, !.pc = "img_fetch"]]
               /\ UNCHANGED readers
     /\ ImageFrame

\* The provider's get_page returns: an Err is unwrapped, the bytes are
\* sent; either way the guard is dropped.
ImageFetch(w) ==
  LET me == [cw[w] EXCEPT !.prov = Append(@, "image")]
  IN /\ cw[w].pc = "img_fetch"
     /\ \E fetched \in BOOLEAN :
          cw' = [cw EXCEPT ![w] =
                   IF fetched THEN Return(me, Reply(Ok))
                   ELSE Panicked([me EXCEPT !.perr = TRUE], PanicErr)]
     /\ readers' = readers \ {w}
     /\ ImageFrame

\* A store with a page of each of two sources, either of them loaded or
\* not.
InitProxy ==
  /\ os = "linux"
  /\ catalog = << >>
  /\ files = [f \in FilePaths |-> Absent]
  /\ InitIdle
  /\ lspc = "idle"
  /\ lsOut = << >>
  /\ started = [install |-> 0, request |-> 0]
  /\ InitCallsIdle
  /\ exts \in {f \o b : f \in {<< >>, <<[name |-> "foo", version |-> V100]>>},
                       b \in {<< >>, <<[name |-> "bar", version |-> V123]>>}}
  /\ manga = <<MangaRow(1, "foo", "m1", None, << >>, None),
               MangaRow(2, "bar", "m2", None, << >>, None)>>
  /\ chapter = <<ChapterRow(1, 1, "foo", "1"), ChapterRow(2, 2, "bar", "1")>>
  /\ page = <<PageRow(1, 0, "a.png"), PageRow(2, 0, "b")>>
  /\ provider \in Providers

NextProxy ==
  \/ \E w \in CacheWorkers, pid \in {1, 2, 3} : ImageStart(w, pid)
  \/ \E w \in CacheWorkers : ImageResolve(w)
  \/ \E w \in CacheWorkers : ImageLock(w)
  \/ \E w \in CacheWorkers : ImageLookup(w)
  \/ \E w \in CacheWorkers : ImageFetch(w)
  \/ \E w \in CacheWorkers : CallReset(w)

SpecProxy == InitProxy /\ [][NextProxy]_vars

\* C22: a proxy_image whose page id the cache cannot resolve never takes
\* the registry lock and calls no provider, and returns the not-found
\* rejection; a proxy_image that calls a provider holds the shared lock on
\* the handle named as the source stored with the page, and does call it
\* whenever that source is loaded.
C22_ProxyResolvesFirst ==
  \A w \in CacheWorkers :
    LET me == cw[w]
        img == GetImageFromPageId(page, chapter, me.id)
    IN me.op = "image" =>
         /\ img = NoImage =>
              /\ ~me.locked /\ w \notin readers /\ me.prov = << >>
              /\ me.pc = "done" => me.res.kind = Reject
         /\ me.pc = "img_fetch" \/ me.prov # << >> =>
              me.locked /\ me.handle.name = img.source
         /\ me.pc = "img_fetch" => w \in readers
         /\ me.pc = "done" /\ img # NoImage /\ ExtGet(exts, img.source) # NoHandle
              => me.prov = <<"image">>

\* The image of a page of bar was fetched from bar's provider while foo was
\* loaded as well.
C22_Witness ==
  \E w \in CacheWorkers :
    /\ cw[w].pc = "done" /\ cw[w].op = "image" /\ cw[w].res.kind = Ok
    /\ cw[w].handle.name = "bar" /\ cw[w].prov = <<"image">>
    /\ ExtGet(exts, "foo") # NoHandle

(* ------------------------------------------------------------------ *)
(* Two requests persisting the same uncached manga                      *)
(* ------------------------------------------------------------------ *)
\* foo is loaded, its list holds one or two mangas, and the cache holds
\* none of them or the first.
InitMangas ==
  /\ InitRest
  /\ exts = <<[name |-> "foo", version |-> V100]>>
  /\ manga \in {<< >>, <<MangaRow(1, "foo", "m1", None, << >>, None)>>}
  /\ chapter = << >>
  /\ page = << >>
  /\ \E pr \in Providers, ms \in {<<"m1">>, <<"m1", "m2">>, <<"m2", "m1">>} :
       provider = [pr EXCEPT !.mangas = ms]

NextMangas ==
  \/ \E w \in CacheWorkers : MangasStart(w)
  \/ \E w \in CacheWorkers : MangasLookup(w)
  \/ \E w \in CacheWorkers : MangasFetch(w)
  \/ \E w \in CacheWorkers : MangasInsert(w)
  \/ \E w \in CacheWorkers : MangasReread(w)
  \/ \E w \in CacheWorkers : CallReset(w)

SpecMangas == InitMangas /\ [][NextMangas]_vars

\* No two manga rows share a natural key or a surrogate id.
OneRowPerManga ==
  \A i, j \in DOMAIN manga :
    (manga[i].id = manga[j].id
       \/ (manga[i].source = manga[j].source /\ manga[i].path = manga[j].path))
      => i = j

Details ==
  {MangaRow(0, "foo", "m1", st, au, de) :
     st \in {None, Some("ongoing")}, au \in {<< >>, <<"au">>},
     de \in {None, Some("about")}}

\* UPDATE manga SET author = $1, status = $2, description = $3 WHERE ... :
\* the three fields of the row take the values of the response.
SetMangaInfo(tbl, id, fresh) ==
  [k \in DOMAIN tbl |->
     IF tbl[k].id = id
       THEN [tbl[k] EXCEPT !.author = fresh.author, !.status = fresh.status,
                           !.description = fresh.description]
       ELSE tbl[k]]

\* The handler is asked for the manga of a source and title, here those of
\* the row of the id.
DetailStart(w, id) == CallStart(w, "detail", id, FALSE)

\* The detail of the cache is returned when the cache has it; without a
\* row to take the url from the request is rejected.
DetailCheck(w) ==
  LET me == cw[w]
      row == GetManga(manga, me.sid)
      seen == [me EXCEPT !.hit = IsComplete(row), !.row = row]
  IN /\ me.pc = "detail_check"
     /\ cw' = [cw EXCEPT ![w] =
                 IF IsComplete(row)
                   THEN Return(seen, [Reply(Ok) EXCEPT !.manga = row])
                 ELSE IF row = NoManga THEN Return(seen, Reply(Reject))
                 ELSE [seen EXCEPT !.pc = "detail_fetch"]]
     /\ UNCHANGED storeVars
     /\ CallFrame

\* The provider answers, the UPDATE is executed, its outcome dropped, and
\* the provider's answer is the reply.
DetailFetch(w) ==
  LET me == [cw[w] EXCEPT !.prov = Append(@, "info")]
  IN /\ cw[w].pc = "detail_fetch"
     /\ \E fresh \in Details, stored \in BOOLEAN :
          /\ manga' = IF stored THEN SetMangaInfo(manga, me.sid, fresh) ELSE manga
          /\ cw' = [cw EXCEPT ![w] =
                      Return([me EXCEPT !.wrote = stored],
                             [Reply(Ok) EXCEPT !.manga = fresh])]
     /\ UNCHANGED <<chapter, page>>
     /\ CallFrame

\* foo is loaded and the cache holds nothing yet, or the row of m1 as
\* list_mangas inserts it.
InitShared ==
  /\ InitRest
  /\ exts = <<[name |-> "foo", version |-> V100]>>
  /\ manga \in {<< >>, <<MangaRow(1, "foo", "m1", None, << >>, None)>>}
  /\ chapter = << >>
  /\ page = << >>
  /\ provider \in Providers

NextShared ==
  \/ \E w \in {1} : MangasStart(w)
  \/ \E w \in CacheWorkers : MangasLookup(w)
  \/ \E w \in CacheWorkers : MangasFetch(w)
  \/ \E w \in CacheWorkers : MangasInsert(w)
  \/ \E w \in CacheWorkers : MangasReread(w)
  \/ \E w \in {1}, id \in {1} : InfoStart(w, id)
  \/ \E w \in CacheWorkers : InfoCheck(w)
  \/ \E w \in CacheWorkers : InfoFetch(w)
  \/ \E w \in {1}, id \in {1} : DetailStart(w, id)
  \/ \E w \in CacheWorkers : DetailCheck(w)
  \/ \E w \in CacheWorkers : DetailFetch(w)
  \/ \E w \in CacheWorkers : CallReset(w)

SpecShared == InitShared /\ [][NextShared]_vars

\* C24: a status, author list or description that a manga row holds is
\* still there, not empty and not absent, after every step of list_mangas
\* and get_manga_info.
C24_PopulatedStaysPopulated ==
  [][ \A k \in DOMAIN manga :
        /\ k \in DOMAIN manga'
        /\ manga[k].status # None => manga'[k].status # None
        /\ manga[k].author # << >> => manga'[k].author # << >>
        /\ manga[k].description # None => manga'[k].description # None
    ]_vars

(* ------------------------------------------------------------------ *)
(* The per-user columns                                                 *)
(* ------------------------------------------------------------------ *)
\* The favorites handler: subject s marks or unmarks the manga.
Favorite(s) ==
  /\ overlay' = [overlay EXCEPT ![s].favorite = ~@]
  /\ UNCHANGED <<envVars, detail, callVars, regVars, files, instVars, reqVars,
                 listVars, cacheVars>>

\* The history handler: subject s has read chapter 1.
MarkRead(s) ==
  /\ overlay[s].read = 0
  /\ overlay' = [overlay EXCEPT ![s].last_read = 1, ![s].read = 1]
  /\ UNCHANGED <<envVars, detail, callVars, regVars, files, instVars, reqVars,
                 listVars, cacheVars>>

\* foo is loaded; the cache holds the manga, incomplete, with or without
\* a chapter.
InitOverlay ==
  /\ InitRest
  /\ exts = <<[name |-> "foo", version |-> V100]>>
  /\ manga = <<MangaRow(1, "foo", "m1", Some("ongoing"), << >>, None)>>
  /\ chapter \in {<< >>, <<ChapterRow(1, 1, "foo", "1")>>}
  /\ page = << >>
  /\ provider = [mangas |-> <<"m1">>, detail |-> FullDetail,
                 chapters |-> <<"1">>, pages |-> <<"a">>]

NextOverlay ==
  \/ \E s \in Subjects : Favorite(s)
  \/ \E s \in Subjects : MarkRead(s)
  \/ \E w \in CacheWorkers : MangasStart(w)
  \/ \E w \in CacheWorkers : MangasLookup(w)
  \/ \E w \in CacheWorkers : MangasFetch(w)
  \/ \E w \in CacheWorkers : MangasInsert(w)
  \/ \E w \in CacheWorkers : MangasReread(w)
  \/ \E w \in CacheWorkers, id \in {1} : InfoStart(w, id)
  \/ \E w \in CacheWorkers : InfoCheck(w)
  \/ \E w \in CacheWorkers : InfoFetch(w)
  \/ \E w \in CacheWorkers, id \in {1}, refresh \in BOOLEAN :
       ChaptersStart(w, id, refresh)
  \/ \E w \in CacheWorkers : ChaptersCheck(w)
  \/ \E w \in CacheWorkers : ChaptersFetch(w)
  \/ \E w \in CacheWorkers : ChaptersInsert(w)
  \/ \E w \in CacheWorkers : ChaptersReread(w)
  \/ \E w \in CacheWorkers : CallReset(w)

SpecOverlay == InitOverlay /\ [][NextOverlay]_vars

\* The rows of the cache that the operation of the call returns.
CacheRecords(me, mangas, chapters) ==
  CASE me.op = "mangas" -> me.res.mangas = GetMangas(mangas, "foo", me.fetched)
    [] me.op = "info" -> me.res.manga = GetManga(mangas, me.sid)
    [] me.op = "chapters" -> me.res.chapters = GetChapters(chapters, me.sid)

\* C25: when list_mangas, get_manga_info or get_chapters returns records,
\* on a cache hit and after a provider fetch alike, the shared fields are
\* the rows of the cache as they then are and the per-user fields are the
\* columns of the subject of the request as they then are; so two subjects
\* asking the same of the same cache get the same shared fields, and
\* neither gets the other's favorite flag, last-read chapter or read
\* counter.
C25_RecordsOfTheCaller ==
  [][ \A w \in CacheWorkers :
        (Returns(w) /\ cw'[w].op \in {"mangas", "info", "chapters"}
           /\ cw'[w].res.kind = Ok)
          => /\ cw'[w].subject = Subject(w)
             /\ cw'[w].res.overlay = overlay'[Subject(w)]
             /\ CacheRecords(cw'[w], manga', chapter')
    ]_vars

\* Both subjects asked for the detail of the manga, one answered from the
\* cache and one after a provider fetch; the shared record is the same and
\* each got its own columns, which differ.
C25_Witness ==
  \E v, w \in CacheWorkers :
    /\ cw[v].pc = "done" /\ cw[w].pc = "done"
    /\ cw[v].op = "info" /\ cw[w].op = "info"
    /\ cw[v].res.kind = Ok /\ cw[w].res.kind = Ok
    /\ cw[v].prov = << >> /\ cw[w].prov = <<"info">>
    /\ cw[v].res.manga = cw[w].res.manga
    /\ cw[v].res.overlay = overlay[Subject(v)]
    /\ cw[w].res.overlay = overlay[Subject(w)]
    /\ cw[v].res.overlay.favorite /\ ~cw[w].res.overlay.favorite
    /\ cw[w].res.overlay.read = 1 /\ cw[v].res.overlay.read = 0

\* C27: the exclusive guard of the registry is held by an install_source
\* only while it is in its unload-and-delete block or in its load block,
\* so not during its catalog fetch, its download or its file write; a
\* content request that is calling a provider holds the shared guard, and
\* nobody holds the exclusive guard meanwhile.
C27_NoWriteGuardOverNetwork ==
  /\ writer \in Installers \cup {0}
  /\ \A p \in Installers :
       /\ writer = p => ipc[p] \in {"unload", "load"}
       /\ ipc[p] \in {"idle", "unload_wait", "download", "write", "writing",
                      "load_wait", "done"} => writer # p /\ p \notin readers
  /\ \A r \in Requesters :
       rpc[r] = "calling" => r \in readers /\ writer = 0

\* An install that unloaded a handle is downloading, without the guard,
\* while a content request is calling a provider under the shared guard.
C27_Witness ==
  \E p \in Installers, r \in Requesters :
    /\ ipc[p] = "download" /\ iold[p] # NoVersion /\ writer = 0
    /\ rpc[r] = "calling" /\ r \in readers

(* ------------------------------------------------------------------ *)
(* Waiting for the registry lock                                        *)
(* ------------------------------------------------------------------ *)
\* The frame of a step of a content operation as the lock sees it.
GuardFrame ==
  UNCHANGED <<envVars, userVars, callVars, exts, writer, files, instVars,
              reqVars, listVars, storeVars, provider>>

\* A content operation is called, on a worker that is free or has returned,
\* and reaches self.exts.read(): get_chapters itself, or get_pages as the
\* first sub-fetch of read. Requests keep coming: no count ends them.
GuardWait(w, op) ==
  /\ cw[w].pc \in {"idle", "done"}
  /\ UNCHANGED ccalls
  /\ cw' = [cw EXCEPT ![w] =
              [IdleCall EXCEPT !.pc = "rd_wait", !.op = op, !.k = 1,
                               !.subject = Subject(w)]]
  /\ UNCHANGED readers
  /\ GuardFrame

\* The shared guard is granted.
GuardTake(w) ==
  /\ cw[w].pc = "rd_wait"
  /\ CanRead
  /\ readers' = readers \cup {w}
  /\ cw' = [cw EXCEPT ![w] = [@ EXCEPT !.locked = TRUE, !.pc = "rd_locked"]]
  /\ UNCHANGED ccalls
  /\ GuardFrame

\* A function whose panic leaves the shared guard taken.
GuardDropNotOnPanic(w) ==
  LET me == cw[w]
  IN /\ me.pc = "rd_locked"
     /\ \E ok \in BOOLEAN :
          /\ readers' = IF ok THEN readers \ {w} ELSE readers
          /\ cw' = [cw EXCEPT ![w] =
                      IF ok /\ me.op = "read" /\ me.k < 3
                        THEN [me EXCEPT !.locked = FALSE, !.k = @ + 1,
                                        !.pc = "rd_wait"]
                      ELSE [me EXCEPT !.locked = FALSE, !.pc = "done",
                                      !.res = Reply(IF ok THEN Ok ELSE PanicErr)]]
     /\ UNCHANGED ccalls
     /\ GuardFrame

\* The function returns or panics, and its guard is dropped; in a read,
\* after an Ok of get_pages or get_chapters the next sub-fetch reaches
\* exts.read().
GuardDrop(w) ==
  LET me == cw[w]
  IN /\ me.pc = "rd_locked"
     /\ readers' = readers \ {w}
     /\ \E ok \in BOOLEAN :
          cw' = [cw EXCEPT ![w] =
                   IF ok /\ me.op = "read" /\ me.k < 3
                     THEN [me EXCEPT !.locked = FALSE, !.k = @ + 1,
                                     !.pc = "rd_wait"]
                   ELSE [me EXCEPT !.locked = FALSE, !.pc = "done",
                                   !.res = Reply(IF ok THEN Ok ELSE PanicErr)]]
     /\ UNCHANGED ccalls
     /\ GuardFrame

\* A linux host whose catalog offers foo, with foo 0.9.0 installed or not.
InitLive ==
  /\ Init
  /\ os = "linux"
  /\ catalog = <<Entry("foo", V100, CORE_VERSION, RUSTC_VERSION)>>

NextLive ==
  \/ \E p \in Installers : InstallStart(p, "foo")
  \/ \E p \in Installers : InstallLockUnload(p)
  \/ \E p \in Installers : InstallUnload(p)
  \/ \E p \in Installers : InstallDownload(p)
  \/ \E p \in Installers : InstallWriteBegin(p)
  \/ \E p \in Installers : InstallWriteEnd(p)
  \/ \E p \in Installers : InstallLockLoad(p)
  \/ \E p \in Installers : InstallLoad(p)
  \/ \E p \in Installers : InstallReturn(p)
  \/ \E w \in {1}, op \in {"read", "chapters"} : GuardWait(w, op)
  \/ \E w \in CacheWorkers : GuardTake(w)
  \/ \E w \in CacheWorkers : GuardDrop(w)

\* Every provider call, store call and file operation returns; the lock is
\* fair: a guard that can be granted again and again is granted.
FairLive ==
  /\ \A p \in Installers :
       /\ SF_vars(InstallLockUnload(p) \/ InstallLockLoad(p))
       /\ WF_vars(InstallUnload(p) \/ InstallDownload(p) \/ InstallWriteBegin(p)
                    \/ InstallWriteEnd(p) \/ InstallLoad(p))
  /\ \A w \in {1} :
       /\ SF_vars(GuardTake(w))
       /\ WF_vars(GuardDrop(w))

SpecLive == InitLive /\ [][NextLive]_vars /\ FairLive

MaxSends == 3       \* requests the component sends to the worker in a run

\* The frame of a step of the component.
DetailFrame ==
  UNCHANGED <<envVars, overlay, callVars, regVars, files, instVars, reqVars,
              listVars, cacheVars>>

\* self.worker.send(request): one more request without an answer.
Send(d, request) ==
  [d EXCEPT !.requests = Append(@, request), !.sent = @ + 1,
            !.is_fetching = TRUE]

\* Detail::rendered: the first render, or the one after change, sends
\* FetchManga (Detail::get_manga_info).
Rendered ==
  /\ detail.should_fetch
  /\ detail.sent < MaxSends
  /\ detail' = [Send(detail, "FetchManga") EXCEPT !.should_fetch = FALSE,
                                                  !.msg = "none"]
  /\ DetailFrame

\* Detail::change with another manga id.
Change ==
  /\ ~detail.should_fetch
  /\ detail.sent < MaxSends
  /\ detail' = [detail EXCEPT !.should_fetch = TRUE, !.msg = "none"]
  /\ DetailFrame

\* The requests without the k-th.
Answered(requests, k) ==
  [i \in 1..(Len(requests) - 1) |->
     IF i < k THEN requests[i] ELSE requests[i + 1]]

\* Msg::MangaReady: the worker answers a FetchManga. The manga of the
\* answer, its favorite flag with it, replaces the component's; the
\* chapters are asked for (Detail::get_chapters(false)); is_fetching is set
\* to false.
MangaReady ==
  \E k \in DOMAIN detail.requests, favorite \in BOOLEAN :
    /\ detail.requests[k] = "FetchManga"
    /\ detail' = [Send([detail EXCEPT !.requests = Answered(@, k),
                                      !.is_favorite = favorite],
                       "FetchChapters")
                    EXCEPT !.is_fetching = FALSE, !.msg = "MangaReady"]
    /\ DetailFrame

\* Msg::ChapterReady: the worker answers a FetchChapters.
ChapterReady ==
  \E k \in DOMAIN detail.requests :
    /\ detail.requests[k] = "FetchChapters"
    /\ detail' = [detail EXCEPT !.requests = Answered(@, k),
                                !.is_fetching = FALSE, !.msg = "ChapterReady"]
    /\ DetailFrame

\* Msg::Refresh: Detail::get_chapters(true).
Refresh ==
  /\ detail.sent < MaxSends
  /\ detail' = [Send(detail, "FetchChapters") EXCEPT !.msg = "Refresh"]
  /\ DetailFrame

\* Msg::FavoriteEvent: Detail::unfavorite for a favorite, Detail::favorite
\* otherwise; the new fetch task takes the place of the one before.
FavoriteEvent ==
  /\ detail' = [detail EXCEPT
                  !.http = IF detail.is_favorite THEN "unfavorite" ELSE "favorite",
                  !.msg = "FavoriteEvent"]
  /\ DetailFrame

\* The answer to the favorite request: Msg::Favorited or Msg::Unfavorited
\* with the status of its body when the response is a success that parses,
\* Msg::Noop otherwise.
FavoriteAnswer ==
  /\ detail.http # "none"
  /\ \E parsed \in BOOLEAN, status \in {"success", "failed"} :
       detail' =
         [detail EXCEPT
            !.http = "none",
            !.msg = IF ~parsed THEN "Noop"
                    ELSE IF detail.http = "favorite" THEN "Favorited"
                    ELSE "Unfavorited",
            !.is_favorite = IF parsed /\ status = "success"
                              THEN detail.http = "favorite" ELSE @]
  /\ DetailFrame

NextDetail ==
  \/ Rendered
  \/ Change
  \/ MangaReady
  \/ ChapterReady
  \/ Refresh
  \/ FavoriteEvent
  \/ FavoriteAnswer

SpecDetail == Init /\ [][NextDetail]_vars

\* C28: is_fetching is true whenever a FetchManga or FetchChapters request
\* is without its answer, and goes from true to false only in a step that
\* answers the last of them; is_favorite changes only in the step of a
\* Favorited or Unfavorited message.
C28_FetchingWhilePending ==
  [][ /\ detail'.requests # << >> => detail'.is_fetching
      /\ (detail.is_fetching /\ ~detail'.is_fetching)
           => (Len(detail.requests) = 1 /\ detail'.requests = << >>)
      /\ detail'.is_favorite # detail.is_favorite
           => detail'.msg \in {"Favorited", "Unfavorited"}
    ]_vars
====
